---------------------------- MODULE Spec2Model ----------------------------
(***************************************************************************)
(* Model of the NLP query engine's core:                                   *)
(*   backend/api/services/schema_discovery.py  (SQLiteSchemaDiscovery)     *)
(*   backend/api/services/query_engine.py      (NaturalLanguageQueryEngine)*)
(*                                                                         *)
(* Strings are TLA+ strings; substring tests, lower-casing, the regular    *)
(* expressions and the SQL text are computed character by character.       *)
(* Python dicts are sequences of records in insertion order.  Relevance    *)
(* scores are counted in tenths (8 is 0.8); the confidence is the exact    *)
(* fraction num/den.  The sums the code forms in binary floating point are *)
(* therefore taken as exact decimals: the two threshold tests are not      *)
(* affected (a score at or below a threshold is a single term or zero).    *)
(***************************************************************************)
EXTENDS Integers, Sequences, FiniteSets, TLC

(***************************************************************************)
(* Bounds of the model.                                                    *)
(***************************************************************************)
MaxCols == 2        \* columns of the `employees` table of a database
MaxTables == 2      \* tables of a database
MaxFaults == 2      \* introspection statements that fail during one analysis
MaxRows == 1        \* rows a SQL statement returns

(***************************************************************************)
(* Strings.                                                                *)
(***************************************************************************)
None == "<None>"    \* Python's None where a string is expected (no string contains "<")
NoSnapshot == <<>>  \* None where a schema snapshot is expected
NoMapping == <<>>   \* None where a mapping is expected
NoLimit == <<>>     \* sql_parts["limit"] = None; a limit n is <<n>>

UpperChars == "ABCDEFGHIJKLMNOPQRSTUVWXYZ"
LowerChars == "abcdefghijklmnopqrstuvwxyz"
DigitChars == "0123456789"

Char(s, i) == SubSeq(s, i, i)

UpperSet == {Char(UpperChars, i) : i \in 1..Len(UpperChars)}
DigitSet == {Char(DigitChars, i) : i \in 1..Len(DigitChars)}

LowerOf == [c \in UpperSet |->
              Char(LowerChars, CHOOSE i \in 1..Len(UpperChars) : Char(UpperChars, i) = c)]

\* str.lower() of one character
LowerChar(c) == IF c \in UpperSet THEN LowerOf[c] ELSE c

RECURSIVE LowerFrom(_, _)
LowerFrom(s, i) ==
    IF i > Len(s) THEN "" ELSE LowerChar(Char(s, i)) \o LowerFrom(s, i + 1)

\* str.lower()
Lower(s) == LowerFrom(s, 1)

\* Python's `needle in haystack` on strings
Contains(haystack, needle) ==
    \/ needle = ""
    \/ \E i \in 1..(Len(haystack) - Len(needle) + 1) :
          SubSeq(haystack, i, i + Len(needle) - 1) = needle

\* str.endswith
EndsWith(s, suffix) ==
    /\ Len(s) >= Len(suffix)
    /\ SubSeq(s, Len(s) - Len(suffix) + 1, Len(s)) = suffix

\* any(keyword in text for keyword in keywords)
AnyIn(keywords, text) == \E k \in 1..Len(keywords) : Contains(text, keywords[k])

\* `x in list`
InList(x, list) == \E k \in 1..Len(list) : list[k] = x

IsDigit(c) == c \in DigitSet
DigitValue(c) == (CHOOSE i \in 1..Len(DigitChars) : Char(DigitChars, i) = c) - 1
SpaceSet == {" ", "\t", "\n", "\r", "\f"}
IsSpace(c) == c \in SpaceSet

\* ', '.join(parts) and its relatives
RECURSIVE Join(_, _)
Join(sep, parts) ==
    IF Len(parts) = 0 THEN ""
    ELSE IF Len(parts) = 1 THEN parts[1]
    ELSE parts[1] \o sep \o Join(sep, Tail(parts))

\* the elements of a list
Elems(s) == {s[i] : i \in 1..Len(s)}

\* [x for x in s if x satisfies the condition], keep the set of elements satisfying it
RECURSIVE SelectSeqIdx(_, _, _)
SelectSeqIdx(s, keep, i) ==
    IF i > Len(s) THEN <<>>
    ELSE (IF s[i] \in keep THEN <<s[i]>> ELSE <<>>) \o SelectSeqIdx(s, keep, i + 1)

Filter(s, keep) == SelectSeqIdx(s, keep, 1)

(***************************************************************************)
(* The naming pattern dictionary (_analyze_naming_patterns).  A dict is a  *)
(* sequence of <<key, value>> entries in insertion order.                  *)
(***************************************************************************)
column_synonyms == <<
    [canonical |-> "employee_id", synonyms |-> <<"emp_id", "staff_id", "worker_id", "personnel_id", "user_id">>],
    [canonical |-> "first_name",  synonyms |-> <<"fname", "given_name", "forename", "name">>],
    [canonical |-> "last_name",   synonyms |-> <<"lname", "surname", "family_name">>],
    [canonical |-> "full_name",   synonyms |-> <<"name", "employee_name", "person_name">>],
    [canonical |-> "salary",      synonyms |-> <<"wage", "pay", "compensation", "income", "earnings">>],
    [canonical |-> "department",  synonyms |-> <<"dept", "division", "unit", "section", "team">>],
    [canonical |-> "hire_date",   synonyms |-> <<"start_date", "join_date", "employment_date", "hired">>],
    [canonical |-> "email",       synonyms |-> <<"email_address", "mail", "e_mail", "contact_email">>],
    [canonical |-> "phone",       synonyms |-> <<"phone_number", "telephone", "mobile", "contact_number">>],
    [canonical |-> "address",     synonyms |-> <<"location", "street_address", "home_address">>],
    [canonical |-> "position",    synonyms |-> <<"job_title", "role", "designation", "title">>],
    [canonical |-> "manager",     synonyms |-> <<"supervisor", "boss", "lead", "manager_id">>],
    [canonical |-> "status",      synonyms |-> <<"state", "condition", "active", "inactive">>] >>

table_synonyms == <<
    [canonical |-> "employees",   synonyms |-> <<"employee", "emp", "staff", "personnel", "worker", "people">>],
    [canonical |-> "departments", synonyms |-> <<"department", "dept", "division", "unit", "team">>],
    [canonical |-> "salaries",    synonyms |-> <<"salary", "compensation", "pay", "wage", "payroll">>],
    [canonical |-> "projects",    synonyms |-> <<"project", "assignment", "task", "work">>],
    [canonical |-> "orders",      synonyms |-> <<"order", "purchase", "sale", "transaction">>],
    [canonical |-> "customers",   synonyms |-> <<"customer", "client", "contact", "user">>],
    [canonical |-> "products",    synonyms |-> <<"product", "item", "inventory", "stock">>] >>

_analyze_naming_patterns ==
    [column_synonyms |-> column_synonyms, table_synonyms |-> table_synonyms]

(***************************************************************************)
(* Purpose inference.                                                      *)
(***************************************************************************)
\* a table purpose inference that tests the role keywords before the project keywords
_detect_table_purpose_roles_first(table_name) ==
    LET name_lower == Lower(table_name) IN
    IF AnyIn(<<"employee", "emp", "staff", "personnel", "worker", "user", "person">>, name_lower)
        THEN "employees"
    ELSE IF AnyIn(<<"department", "dept", "division", "unit", "team", "group">>, name_lower)
        THEN "departments"
    ELSE IF AnyIn(<<"salary", "compensation", "pay", "wage", "payroll", "earning">>, name_lower)
        THEN "compensation"
    ELSE IF AnyIn(<<"role", "position", "job", "title", "designation">>, name_lower)
        THEN "roles"
    ELSE IF AnyIn(<<"project", "assignment", "task", "work", "job">>, name_lower)
        THEN "projects"
    ELSE IF AnyIn(<<"document", "doc", "file", "attachment", "record">>, name_lower)
        THEN "documents"
    ELSE IF AnyIn(<<"order", "purchase", "sale", "transaction">>, name_lower)
        THEN "transactions"
    ELSE IF AnyIn(<<"product", "item", "inventory", "stock">>, name_lower)
        THEN "products"
    ELSE IF AnyIn(<<"customer", "client", "contact">>, name_lower)
        THEN "customers"
    ELSE "unknown"

_detect_table_purpose(table_name) ==
    LET name_lower == Lower(table_name) IN
    IF AnyIn(<<"employee", "emp", "staff", "personnel", "worker", "user", "person">>, name_lower)
        THEN "employees"
    ELSE IF AnyIn(<<"department", "dept", "division", "unit", "team", "group">>, name_lower)
        THEN "departments"
    ELSE IF AnyIn(<<"salary", "compensation", "pay", "wage", "payroll", "earning">>, name_lower)
        THEN "compensation"
    ELSE IF AnyIn(<<"project", "assignment", "task", "work", "job">>, name_lower)
        THEN "projects"
    ELSE IF AnyIn(<<"role", "position", "job", "title", "designation">>, name_lower)
        THEN "roles"
    ELSE IF AnyIn(<<"document", "doc", "file", "attachment", "record">>, name_lower)
        THEN "documents"
    ELSE IF AnyIn(<<"order", "purchase", "sale", "transaction">>, name_lower)
        THEN "transactions"
    ELSE IF AnyIn(<<"product", "item", "inventory", "stock">>, name_lower)
        THEN "products"
    ELSE IF AnyIn(<<"customer", "client", "contact">>, name_lower)
        THEN "customers"
    ELSE "unknown"

_detect_column_purpose(column_name, column_type) ==
    LET name_lower == Lower(column_name)
        type_str == Lower(column_type)
    IN
    IF AnyIn(<<"id", "key">>, name_lower) \/ EndsWith(name_lower, "_id")
        THEN "identifier"
    ELSE IF AnyIn(<<"name", "title", "label", "fname", "lname", "first_name", "last_name">>, name_lower)
        THEN "name"
    ELSE IF AnyIn(<<"email", "mail", "e_mail">>, name_lower)
        THEN "email"
    ELSE IF AnyIn(<<"phone", "tel", "mobile", "contact">>, name_lower)
        THEN "phone"
    ELSE IF AnyIn(<<"date", "time", "created", "updated", "modified", "timestamp">>, name_lower)
        THEN "datetime"
    ELSE IF AnyIn(<<"salary", "wage", "pay", "compensation", "amount", "price", "cost">>, name_lower)
        THEN "monetary"
    ELSE IF AnyIn(<<"address", "location", "city", "state", "country", "zip", "postal">>, name_lower)
        THEN "location"
    ELSE IF AnyIn(<<"status", "state", "category", "type", "kind">>, name_lower)
        THEN "category"
    ELSE IF \E k \in 1..4 : Contains(type_str, <<"varchar", "text", "char", "string">>[k])
        THEN "text"
    ELSE IF \E k \in 1..7 : Contains(type_str, <<"int", "integer", "numeric", "decimal", "float", "real", "double">>[k])
        THEN "numeric"
    ELSE IF \E k \in 1..4 : Contains(type_str, <<"date", "time", "timestamp", "datetime">>[k])
        THEN "datetime"
    ELSE IF \E k \in 1..2 : Contains(type_str, <<"bool", "boolean">>[k])
        THEN "boolean"
    ELSE "unknown"

(***************************************************************************)
(* The databases the model ranges over.  A database is the sequence of its *)
(* user tables in the order `SELECT name FROM sqlite_master ... ORDER BY   *)
(* name` returns them; a table has a name, its declared columns (PRAGMA    *)
(* table_info: name, type, primary-key flag), its foreign keys (PRAGMA     *)
(* foreign_key_list), a number of rows and the set of introspection        *)
(* statements that fail on it (none in the databases of this section; the  *)
(* statements are named in Statements below).  The columns of `employees`  *)
(* are                                                                     *)
(* any list of at most MaxCols distinct columns of ColumnPool; the other   *)
(* tables are as declared below.                                           *)
(***************************************************************************)
\* the introspection statements run on one table: PRAGMA table_info, PRAGMA
\* foreign_key_list, SELECT * ... LIMIT 3 and SELECT COUNT(*) in _analyze_table, the
\* second PRAGMA foreign_key_list in _analyze_relationships and the second
\* SELECT COUNT(*) in _collect_statistics
Statements == {"columns", "foreign_keys", "sample", "row_count", "relationships", "statistics"}

Column(name, type, pk) == [name |-> name, type |-> type, primary_key |-> pk]

ColumnPool == {
    Column("id", "INTEGER", TRUE),
    Column("salary", "DECIMAL(10,2)", FALSE),
    Column("hire_date", "DATE", FALSE),
    Column("start_date", "DATE", FALSE),
    Column("created_date", "DATE", FALSE),
    Column("department_id", "INTEGER", FALSE) }

\* the lists of n distinct columns of the pool
RECURSIVE ColumnLists(_)
ColumnLists(n) ==
    IF n = 0 THEN {<<>>}
    ELSE UNION {{Append(l, c) : c \in ColumnPool \ {l[i] : i \in 1..Len(l)}} :
                   l \in ColumnLists(n - 1)}

\* a table has at least one column
ColumnListsUpTo(n) == UNION {ColumnLists(k) : k \in 1..n}

EmployeesTables ==
    {[name |-> "employees", columns |-> cols,
      foreign_keys |-> IF \E i \in 1..Len(cols) : cols[i].name = "department_id"
                       THEN <<[column |-> "department_id", referenced_table |-> "departments",
                               referenced_column |-> "id"]>>
                       ELSE <<>>,
      rows |-> 5, failing |-> {}] : cols \in ColumnListsUpTo(MaxCols)}

DepartmentsTable ==
    [name |-> "departments",
     columns |-> <<Column("id", "INTEGER", TRUE), Column("name", "TEXT", FALSE),
                   Column("location", "TEXT", FALSE)>>,
     foreign_keys |-> <<>>, rows |-> 2, failing |-> {}]

ProjectsTable ==
    [name |-> "projects",
     columns |-> <<Column("id", "INTEGER", TRUE), Column("name", "TEXT", FALSE),
                   Column("status", "TEXT", FALSE), Column("start_date", "DATE", FALSE)>>,
     foreign_keys |-> <<>>, rows |-> 0, failing |-> {}]

StaffTable ==
    [name |-> "staff",
     columns |-> <<Column("salary", "INTEGER", FALSE), Column("id", "INTEGER", TRUE)>>,
     foreign_keys |-> <<>>, rows |-> 4, failing |-> {}]

\* every choice of tables, listed in name order
Databases ==
    {d \o e \o p \o s :
        d \in {<<>>, <<DepartmentsTable>>},
        e \in {<<>>} \cup {<<t>> : t \in EmployeesTables},
        p \in {<<>>, <<ProjectsTable>>},
        s \in {<<>>, <<StaffTable>>}}

BoundedDatabases == {database \in Databases : Len(database) <= MaxTables}

\* the databases whose `employees` table, if there is one, is (id, department_id)
EmployeesFixed ==
    CHOOSE t \in EmployeesTables :
        t.columns = <<Column("id", "INTEGER", TRUE), Column("department_id", "INTEGER", FALSE)>>

FixedDatabases ==
    {database \in BoundedDatabases :
        \A i \in 1..Len(database) :
            database[i].name = "employees" => database[i] = EmployeesFixed}

\* the sets of at most k (table, statement) pairs
RECURSIVE FaultSetsUpTo(_, _)
FaultSetsUpTo(pairs, k) ==
    IF k = 0 THEN {{}}
    ELSE FaultSetsUpTo(pairs, k - 1)
            \cup {f \cup {pair} : f \in FaultSetsUpTo(pairs, k - 1), pair \in pairs}

\* the database whose statements in faults, pairs of a table and a statement, fail
WithFaults(database, faults) ==
    [i \in 1..Len(database) |->
        [database[i] EXCEPT !.failing = {s \in Statements : <<i, s>> \in faults}]]

\* the database with every statement working
Working(database) == WithFaults(database, {})

\* the databases on which at most MaxFaults introspection statements fail
FaultyDatabases ==
    UNION {{WithFaults(database, faults) :
                faults \in FaultSetsUpTo((1..Len(database)) \X Statements, MaxFaults)} :
           database \in FixedDatabases}

(***************************************************************************)
(* Schema analysis (analyze_database and its helpers).                     *)
(***************************************************************************)
\* what the outer except clause of _analyze_table returns
TableDefaults ==
    [columns |-> <<>>, primary_keys |-> <<>>, foreign_keys |-> <<>>,
     sample_data |-> 0, row_count |-> 0, column_purposes |-> <<>>]

_analyze_table(t) ==
    IF "columns" \in t.failing \/ "foreign_keys" \in t.failing THEN TableDefaults ELSE
    [columns |-> [i \in 1..Len(t.columns) |->
                     [name |-> t.columns[i].name, type |-> t.columns[i].type,
                      primary_key |-> t.columns[i].primary_key]],
     primary_keys |-> LET IsPk(c) == c.primary_key
                      IN  [i \in 1..Len(Filter(t.columns, {x \in Elems(t.columns) : IsPk(x)})) |-> Filter(t.columns, {x \in Elems(t.columns) : IsPk(x)})[i].name],
     foreign_keys |-> t.foreign_keys,
     sample_data |-> IF "sample" \in t.failing THEN 0
                     ELSE IF t.rows < 3 THEN t.rows ELSE 3,
     row_count |-> IF "row_count" \in t.failing THEN 0 ELSE t.rows,
     column_purposes |-> [i \in 1..Len(t.columns) |->
                             [name |-> t.columns[i].name,
                              purpose |-> _detect_column_purpose(t.columns[i].name, t.columns[i].type)]]]

_analyze_relationships(database) ==
    [i \in 1..Len(database) |->
        [table_name |-> database[i].name,
         relationships |->
            IF "relationships" \in database[i].failing THEN <<>> ELSE
            [k \in 1..Len(database[i].foreign_keys) |->
              [type |-> "foreign_key",
               local_column |-> database[i].foreign_keys[k].column,
               remote_table |-> database[i].foreign_keys[k].referenced_table,
               remote_column |-> database[i].foreign_keys[k].referenced_column,
               relationship_strength |-> "strong"]]]]

RECURSIVE SumRows(_, _)
SumRows(database, i) ==
    IF i > Len(database) THEN 0
    ELSE (IF "statistics" \in database[i].failing THEN 0 ELSE database[i].rows)
             + SumRows(database, i + 1)

\* a statistics collection that counts the system table of the database as well
_collect_statistics_with_master(database) ==
    [total_tables |-> Len(database) + 1,
     total_rows |-> SumRows(database, 1),
     table_sizes |-> [i \in 1..Len(database) |->
                         [table_name |-> database[i].name,
                          rows |-> IF "statistics" \in database[i].failing THEN 0
                                   ELSE database[i].rows]]]

_collect_statistics(database) ==
    [total_tables |-> Len(database),
     total_rows |-> SumRows(database, 1),
     table_sizes |-> [i \in 1..Len(database) |->
                         [table_name |-> database[i].name,
                          rows |-> IF "statistics" \in database[i].failing THEN 0
                                   ELSE database[i].rows]]]

\* an analysis that gives up at the first table whose structural introspection fails
\* and returns what it has
analyze_database_aborting(database) ==
    LET Broken(i) == database[i].failing \cap {"columns", "foreign_keys"} # {}
        done == IF \E i \in 1..Len(database) : Broken(i)
                THEN (CHOOSE i \in 1..Len(database) :
                          Broken(i) /\ \A j \in 1..(i - 1) : ~Broken(j)) - 1
                ELSE Len(database)
    IN  [tables |-> [i \in 1..done |->
                        [table_name |-> database[i].name,
                         info |-> _analyze_table(database[i]),
                         purpose |-> _detect_table_purpose(database[i].name)]],
         relationships |-> _analyze_relationships(database),
         naming_patterns |-> _analyze_naming_patterns,
         statistics |-> _collect_statistics(database),
         database_type |-> "sqlite"]

\* the snapshot analyze_database returns on an open connection
analyze_database(database) ==
    [tables |-> [i \in 1..Len(database) |->
                    [table_name |-> database[i].name,
                     info |-> _analyze_table(database[i]),
                     purpose |-> _detect_table_purpose(database[i].name)]],
     relationships |-> _analyze_relationships(database),
     naming_patterns |-> _analyze_naming_patterns,
     statistics |-> _collect_statistics(database),
     database_type |-> "sqlite"]

(***************************************************************************)
(* Query classification and relevance scoring.                             *)
(***************************************************************************)
\* a classifier whose count keywords lack "how many"
_classify_query_type_no_how_many(query) ==
    LET query_lower == Lower(query) IN
    IF AnyIn(<<"count", "number of", "total">>, query_lower) THEN "count"
    ELSE IF AnyIn(<<"average", "avg", "mean">>, query_lower) THEN "aggregation"
    ELSE IF AnyIn(<<"highest", "lowest", "top", "bottom", "max", "min">>, query_lower) THEN "ranking"
    ELSE IF AnyIn(<<"sum", "total amount", "sum of">>, query_lower) THEN "sum"
    ELSE IF AnyIn(<<"group by", "by department", "by role", "grouped by">>, query_lower) THEN "grouping"
    ELSE IF AnyIn(<<"list", "show", "display", "get", "find", "all">>, query_lower) THEN "selection"
    ELSE "general"

\* a classifier that tests the ranking keywords before the aggregation keywords
_classify_query_type_ranking_first(query) ==
    LET query_lower == Lower(query) IN
    IF AnyIn(<<"count", "how many", "number of", "total">>, query_lower) THEN "count"
    ELSE IF AnyIn(<<"highest", "lowest", "top", "bottom", "max", "min">>, query_lower) THEN "ranking"
    ELSE IF AnyIn(<<"average", "avg", "mean">>, query_lower) THEN "aggregation"
    ELSE IF AnyIn(<<"sum", "total amount", "sum of">>, query_lower) THEN "sum"
    ELSE IF AnyIn(<<"group by", "by department", "by role", "grouped by">>, query_lower) THEN "grouping"
    ELSE IF AnyIn(<<"list", "show", "display", "get", "find", "all">>, query_lower) THEN "selection"
    ELSE "general"

_classify_query_type(query) ==
    LET query_lower == Lower(query) IN
    IF AnyIn(<<"count", "how many", "number of", "total">>, query_lower) THEN "count"
    ELSE IF AnyIn(<<"average", "avg", "mean">>, query_lower) THEN "aggregation"
    ELSE IF AnyIn(<<"highest", "lowest", "top", "bottom", "max", "min">>, query_lower) THEN "ranking"
    ELSE IF AnyIn(<<"sum", "total amount", "sum of">>, query_lower) THEN "sum"
    ELSE IF AnyIn(<<"group by", "by department", "by role", "grouped by">>, query_lower) THEN "grouping"
    ELSE IF AnyIn(<<"list", "show", "display", "get", "find", "all">>, query_lower) THEN "selection"
    ELSE "general"

Min(a, b) == IF a <= b THEN a ELSE b

\* dict.get(key, default) on a record
Get(record, key, default) == IF key \in DOMAIN record THEN record[key] ELSE default

\* the number of indices of s whose element is in hits
RECURSIVE CountIdx(_, _, _)
CountIdx(s, hits, i) ==
    IF i > Len(s) THEN 0 ELSE (IF s[i] \in hits THEN 1 ELSE 0) + CountIdx(s, hits, i + 1)

\* a sum that looks the purpose up where _analyze_table put the columns, finds none
\* and tests the default "" against the query
TableRelevanceSum_purpose_missing(query, table_name, table_info, patterns) ==
    LET name_lower == Lower(table_name)
        SynonymHit(entry) == /\ InList(name_lower, entry.synonyms)
                             /\ AnyIn(entry.synonyms, query)
        ColumnHit(col) == Contains(query, Lower(col.name))
        column_matches == CountIdx(table_info.info.columns, {x \in Elems(table_info.info.columns) : ColumnHit(x)}, 1)
    IN  (IF Contains(query, name_lower) THEN 8 ELSE 0)
      + 7 * CountIdx(Get(patterns, "table_synonyms", <<>>), {x \in Elems(Get(patterns, "table_synonyms", <<>>)) : SynonymHit(x)}, 1)
      + (IF Contains(query, Get(table_info.info, "purpose", "")) THEN 6 ELSE 0)
      + 2 * column_matches
      + (IF column_matches > 2 THEN 3 ELSE 0)

\* the sum a table's relevance is clamped from, in tenths
TableRelevanceSum(query, table_name, table_info, patterns) ==
    LET name_lower == Lower(table_name)
        SynonymHit(entry) == /\ InList(name_lower, entry.synonyms)
                             /\ AnyIn(entry.synonyms, query)
        ColumnHit(col) == Contains(query, Lower(col.name))
        column_matches == CountIdx(table_info.info.columns, {x \in Elems(table_info.info.columns) : ColumnHit(x)}, 1)
    IN  (IF Contains(query, name_lower) THEN 8 ELSE 0)
      + 7 * CountIdx(Get(patterns, "table_synonyms", <<>>), {x \in Elems(Get(patterns, "table_synonyms", <<>>)) : SynonymHit(x)}, 1)
      + (IF Contains(query, Get(table_info, "purpose", "")) THEN 6 ELSE 0)
      + 2 * column_matches
      + (IF column_matches > 2 THEN 3 ELSE 0)

_calculate_table_relevance_unclamped(query, table_name, table_info, patterns) ==
    TableRelevanceSum(query, table_name, table_info, patterns)

_calculate_table_relevance(query, table_name, table_info, patterns) ==
    Min(TableRelevanceSum(query, table_name, table_info, patterns), 10)

\* the sum a column's relevance is clamped from, in tenths
ColumnRelevanceSum(query, column_name, column_info, patterns) ==
    LET name_lower == Lower(column_name)
        SynonymHit(entry) == /\ \/ InList(name_lower, entry.synonyms)
                                \/ name_lower = entry.canonical
                             /\ AnyIn(entry.synonyms, query)
        type_lower == Lower(Get(column_info, "type", ""))
    IN  (IF Contains(query, name_lower) THEN 8 ELSE 0)
      + 7 * CountIdx(Get(patterns, "column_synonyms", <<>>), {x \in Elems(Get(patterns, "column_synonyms", <<>>)) : SynonymHit(x)}, 1)
      + (IF Contains(query, Get(column_info, "purpose", "")) THEN 5 ELSE 0)
      + (IF Contains(query, "salary") /\ InList(type_lower, <<"decimal", "numeric", "integer">>)
            THEN 3 ELSE 0)
      + (IF Contains(query, "name") /\ InList(type_lower, <<"varchar", "text", "char">>)
            THEN 3 ELSE 0)
      + (IF Contains(query, "date") /\ Contains(type_lower, "date") THEN 3 ELSE 0)

_calculate_column_relevance(query, column_name, column_info, patterns) ==
    Min(ColumnRelevanceSum(query, column_name, column_info, patterns), 10)

(***************************************************************************)
(* list.sort(key=lambda x: x["relevance"], reverse=True): a stable sort,   *)
(* so entries of equal relevance keep their order.                         *)
(***************************************************************************)
RECURSIVE InsertDesc(_, _, _)
InsertDesc(sorted, x, AfterTies) ==
    IF sorted = <<>> THEN <<x>>
    ELSE IF sorted[1].relevance > x.relevance
            \/ (AfterTies /\ sorted[1].relevance = x.relevance)
         THEN <<sorted[1]>> \o InsertDesc(Tail(sorted), x, AfterTies)
         ELSE <<x>> \o sorted

RECURSIVE SortFrom(_, _, _, _)
SortFrom(items, i, sorted, AfterTies) ==
    IF i > Len(items) THEN sorted
    ELSE SortFrom(items, i + 1, InsertDesc(sorted, items[i], AfterTies), AfterTies)

\* a sort that puts an entry before the earlier entries of equal relevance
SortByRelevance_unstable(items) == SortFrom(items, 1, <<>>, FALSE)

SortByRelevance(items) == SortFrom(items, 1, <<>>, TRUE)

(***************************************************************************)
(* map_natural_language_to_schema.                                         *)
(***************************************************************************)
TableThreshold == 2     \* relevance > 0.2
ColumnThreshold == 1    \* col_relevance > 0.1

IsRelevantTable_inclusive(relevance) == relevance >= TableThreshold

IsRelevantTable(relevance) == relevance > TableThreshold

IsRelevantColumn(col_relevance) == col_relevance > ColumnThreshold

HasName(entries, name) == \E i \in 1..Len(entries) : entries[i].name = name

NamedEntry(entries, name) == entries[CHOOSE i \in 1..Len(entries) : entries[i].name = name]

\* dict lookup by key in a sequence of entries that carry the key in `table_name`
Lookup(entries, table_name) ==
    entries[CHOOSE i \in 1..Len(entries) : entries[i].table_name = table_name]

HasKey(entries, table_name) ==
    \E i \in 1..Len(entries) : entries[i].table_name = table_name

_generate_sql_hints(query, mapping) ==
    LET query_type == mapping.query_type IN
    (IF query_type = "count" THEN <<"Use SELECT COUNT(*) or COUNT(column_name)">>
     ELSE IF query_type = "aggregation" THEN <<"Use AVG() function">>
     ELSE IF query_type = "ranking" THEN <<"Use ORDER BY with LIMIT">>
     ELSE IF query_type = "sum" THEN <<"Use SUM() function">>
     ELSE IF query_type = "grouping" THEN <<"Use GROUP BY clause">>
     ELSE IF query_type = "selection" THEN <<"Use SELECT with WHERE conditions">>
     ELSE <<>>)
    \o (IF Len(mapping.suggested_tables) > 1
        THEN <<"Consider JOINing tables using foreign key relationships">>
        ELSE <<>>)

RECURSIVE SumRelevance(_, _)
SumRelevance(entries, i) ==
    IF i > Len(entries) THEN 0 ELSE entries[i].relevance + SumRelevance(entries, i + 1)

\* a confidence that gives every query type the weight of a recognised one
ConfidenceSum_type_blind(mapping) ==
    LET n == Len(mapping.suggested_tables)
        HasColumns(entry) == entry.columns # <<>>
        tables_with_columns == CountIdx(mapping.suggested_columns, {x \in Elems(mapping.suggested_columns) : HasColumns(x)}, 1)
    IN  [num |-> 4 * SumRelevance(mapping.suggested_tables, 1)
                 + 30 * tables_with_columns + 3 * 8 * n,
         den |-> 100 * n]

\* the confidence as the fraction num/den:
\*   avg_table_relevance * 0.4 + column_coverage * 0.3 + query_type_confidence * 0.3
\* with relevances in tenths is (4 * sum + 30 * tables_with_columns + 3 * q * n) / (100 * n)
ConfidenceSum(mapping) ==
    LET n == Len(mapping.suggested_tables)
        HasColumns(entry) == entry.columns # <<>>
        tables_with_columns == CountIdx(mapping.suggested_columns, {x \in Elems(mapping.suggested_columns) : HasColumns(x)}, 1)
        query_type_confidence == IF mapping.query_type # "general" THEN 8 ELSE 4
    IN  [num |-> 4 * SumRelevance(mapping.suggested_tables, 1)
                 + 30 * tables_with_columns + 3 * query_type_confidence * n,
         den |-> 100 * n]

_calculate_mapping_confidence(mapping) ==
    IF mapping.suggested_tables = <<>> THEN [num |-> 0, den |-> 1]
    ELSE LET c == ConfidenceSum(mapping)
         IN  IF c.num > c.den THEN [num |-> c.den, den |-> c.den] ELSE c

\* a mapper that enters a table in suggested_columns only when it has a relevant column
map_natural_language_to_schema_skipping_empty(query, schema_info) ==
    LET query_lower == Lower(query)
        tables == Get(schema_info, "tables", <<>>)
        patterns == Get(schema_info, "naming_patterns", <<>>)
        scored == [i \in 1..Len(tables) |->
                     [table_name |-> tables[i].table_name,
                      relevance |-> _calculate_table_relevance(query_lower,
                                        tables[i].table_name, tables[i], patterns),
                      purpose |-> Get(tables[i], "purpose", "unknown")]]
        Relevant(entry) == IsRelevantTable(entry.relevance)
        suggested_tables == SortByRelevance(Filter(scored, {x \in Elems(scored) : Relevant(x)}))
        ColumnsOf(table_name) ==
            LET table_data == Lookup(tables, table_name)
                cols == table_data.info.columns
                PurposeOf(col_name) ==
                    IF HasName(table_data.info.column_purposes, col_name)
                    THEN NamedEntry(table_data.info.column_purposes, col_name).purpose
                    ELSE "unknown"
                scoredCols == [k \in 1..Len(cols) |->
                    [column_name |-> cols[k].name,
                     relevance |-> _calculate_column_relevance(query_lower,
                                       cols[k].name, cols[k], patterns),
                     purpose |-> PurposeOf(cols[k].name),
                     data_type |-> Get(cols[k], "type", "unknown")]]
                RelevantCol(entry) == IsRelevantColumn(entry.relevance)
            IN  SortByRelevance(Filter(scoredCols, {x \in Elems(scoredCols) : RelevantCol(x)}))
        all_columns == [i \in 1..Len(suggested_tables) |->
            [table_name |-> suggested_tables[i].table_name,
             columns |-> ColumnsOf(suggested_tables[i].table_name)]]
        suggested_columns ==
            Filter(all_columns, {x \in Elems(all_columns) : x.columns # <<>>})
        partial == [suggested_tables |-> suggested_tables,
                    suggested_columns |-> suggested_columns,
                    query_type |-> _classify_query_type(query)]
    IN  [suggested_tables |-> suggested_tables,
         suggested_columns |-> suggested_columns,
         query_type |-> partial.query_type,
         confidence |-> _calculate_mapping_confidence(partial),
         sql_hints |-> _generate_sql_hints(query_lower, partial)]

map_natural_language_to_schema(query, schema_info) ==
    LET query_lower == Lower(query)
        tables == Get(schema_info, "tables", <<>>)
        patterns == Get(schema_info, "naming_patterns", <<>>)
        scored == [i \in 1..Len(tables) |->
                     [table_name |-> tables[i].table_name,
                      relevance |-> _calculate_table_relevance(query_lower,
                                        tables[i].table_name, tables[i], patterns),
                      purpose |-> Get(tables[i], "purpose", "unknown")]]
        Relevant(entry) == IsRelevantTable(entry.relevance)
        suggested_tables == SortByRelevance(Filter(scored, {x \in Elems(scored) : Relevant(x)}))
        ColumnsOf(table_name) ==
            LET table_data == Lookup(tables, table_name)
                cols == table_data.info.columns
                PurposeOf(col_name) ==
                    IF HasName(table_data.info.column_purposes, col_name)
                    THEN NamedEntry(table_data.info.column_purposes, col_name).purpose
                    ELSE "unknown"
                scoredCols == [k \in 1..Len(cols) |->
                    [column_name |-> cols[k].name,
                     relevance |-> _calculate_column_relevance(query_lower,
                                       cols[k].name, cols[k], patterns),
                     purpose |-> PurposeOf(cols[k].name),
                     data_type |-> Get(cols[k], "type", "unknown")]]
                RelevantCol(entry) == IsRelevantColumn(entry.relevance)
            IN  SortByRelevance(Filter(scoredCols, {x \in Elems(scoredCols) : RelevantCol(x)}))
        suggested_columns == [i \in 1..Len(suggested_tables) |->
            [table_name |-> suggested_tables[i].table_name,
             columns |-> ColumnsOf(suggested_tables[i].table_name)]]
        partial == [suggested_tables |-> suggested_tables,
                    suggested_columns |-> suggested_columns,
                    query_type |-> _classify_query_type(query)]
    IN  [suggested_tables |-> suggested_tables,
         suggested_columns |-> suggested_columns,
         query_type |-> partial.query_type,
         confidence |-> _calculate_mapping_confidence(partial),
         sql_hints |-> _generate_sql_hints(query_lower, partial)]

(***************************************************************************)
(* The regular expressions of the SQL synthesizer, as re.search computes   *)
(* them: the leftmost match, each repetition greedy.  The character        *)
(* classes that follow one another are disjoint, so no backtracking        *)
(* changes a match.                                                        *)
(***************************************************************************)
\* the index after the longest run of characters of a class that starts at i
RECURSIVE RunEnd(_, _, _)
RunEnd(s, class, i) ==
    IF i <= Len(s) /\ Char(s, i) \in class THEN RunEnd(s, class, i + 1) ELSE i

StartsAt(s, i, word) ==
    /\ i + Len(word) - 1 <= Len(s)
    /\ SubSeq(s, i, i + Len(word) - 1) = word

\* the least index among the matching ones, 0 if none
FirstIndex(matches) ==
    IF matches = {} THEN 0 ELSE CHOOSE i \in matches : \A j \in matches : i <= j

\* re.search(r'(20\d{2})', query): group 1, or None
YearMatch(query) ==
    LET Match(i) == /\ i + 3 <= Len(query)
                    /\ StartsAt(query, i, "20")
                    /\ IsDigit(Char(query, i + 2))
                    /\ IsDigit(Char(query, i + 3))
        i == FirstIndex({k \in 1..Len(query) : Match(k)})
    IN  IF i = 0 THEN None ELSE SubSeq(query, i, i + 3)

\* re.search(r'(?:top|bottom)\s+(\d+)', query_lower): group 1, or None
LimitMatch(query_lower) ==
    LET After(i) == IF StartsAt(query_lower, i, "top") THEN i + 3
                    ELSE IF StartsAt(query_lower, i, "bottom") THEN i + 6
                    ELSE 0
        Digits(i) == RunEnd(query_lower, SpaceSet, After(i))
        Match(i) == /\ After(i) # 0
                    /\ Digits(i) > After(i)
                    /\ RunEnd(query_lower, DigitSet, Digits(i)) > Digits(i)
        i == FirstIndex({k \in 1..Len(query_lower) : Match(k)})
    IN  IF i = 0 THEN None
        ELSE SubSeq(query_lower, Digits(i), RunEnd(query_lower, DigitSet, Digits(i)) - 1)

\* re.search(r'salary[\s><=]+([,\d]+)', query_lower): group 1, or None
SalaryMatch(query_lower) ==
    LET SepSet == SpaceSet \cup {">", "<", "="}
        AmountSet == DigitSet \cup {","}
        Amount(i) == RunEnd(query_lower, SepSet, i + 6)
        Match(i) == /\ StartsAt(query_lower, i, "salary")
                    /\ Amount(i) > i + 6
                    /\ RunEnd(query_lower, AmountSet, Amount(i)) > Amount(i)
        i == FirstIndex({k \in 1..Len(query_lower) : Match(k)})
    IN  IF i = 0 THEN None
        ELSE SubSeq(query_lower, Amount(i), RunEnd(query_lower, AmountSet, Amount(i)) - 1)

\* int(digits)
RECURSIVE ParseInt(_, _, _)
ParseInt(digits, i, acc) ==
    IF i > Len(digits) THEN acc
    ELSE ParseInt(digits, i + 1, 10 * acc + DigitValue(Char(digits, i)))

\* str.replace(',', '')
RECURSIVE RemoveCommas(_, _)
RemoveCommas(s, i) ==
    IF i > Len(s) THEN ""
    ELSE (IF Char(s, i) = "," THEN "" ELSE Char(s, i)) \o RemoveCommas(s, i + 1)

(***************************************************************************)
(* SQL synthesis (query_engine.py).                                        *)
(***************************************************************************)
ColumnNames(columns) == [i \in 1..Len(columns) |-> columns[i].column_name]

\* suggested_columns.get(primary_table, [])
ColumnsFor(suggested_columns, table_name) ==
    IF HasKey(suggested_columns, table_name)
    THEN Lookup(suggested_columns, table_name).columns
    ELSE <<>>

_find_numeric_columns(columns) ==
    LET Numeric(col) ==
            \/ AnyIn(<<"int", "numeric", "decimal", "float", "real">>,
                     Lower(Get(col, "data_type", "")))
            \/ Lower(Get(col, "purpose", "")) = "monetary"
    IN  ColumnNames(Filter(columns, {x \in Elems(columns) : Numeric(x)}))

_get_relevant_columns(columns) ==
    IF columns = <<>> THEN <<"*">>
    ELSE LET columns_sorted == SortByRelevance(columns)
             relevant_cols == ColumnNames(SubSeq(columns_sorted, 1, Min(5, Len(columns_sorted))))
         IN  IF relevant_cols # <<>> THEN relevant_cols ELSE <<"*">>

group_patterns == <<
    [group_type |-> "department", synonyms |-> <<"department", "dept", "division", "unit">>],
    [group_type |-> "role",       synonyms |-> <<"role", "position", "title", "job">>],
    [group_type |-> "status",     synonyms |-> <<"status", "state", "active">>],
    [group_type |-> "category",   synonyms |-> <<"category", "type", "kind">>],
    [group_type |-> "location",   synonyms |-> <<"location", "city", "state", "country">>] >>

RECURSIVE GroupingFrom(_, _, _)
GroupingFrom(query_lower, columns, g) ==
    IF g > Len(group_patterns) THEN <<>>
    ELSE LET synonyms == group_patterns[g].synonyms
             Matches(col) == AnyIn(synonyms, Lower(col.column_name))
             matching == Filter(columns, {x \in Elems(columns) : Matches(x)})
         IN  (IF AnyIn(synonyms, query_lower) /\ matching # <<>>
              THEN <<matching[1].column_name>> ELSE <<>>)
             \o GroupingFrom(query_lower, columns, g + 1)

_find_grouping_columns(query, columns) == GroupingFrom(Lower(query), columns, 1)

\* a date filter that wants the purpose to be exactly "date"
DateColumns_exact(columns) ==
    LET IsDate(col) == Lower(Get(col, "purpose", "")) = "date"
    IN  ColumnNames(Filter(columns, {x \in Elems(columns) : IsDate(x)}))

\* [col["column_name"] for col in columns if "date" in col.get("purpose", "").lower()]
DateColumns(columns) ==
    LET IsDate(col) == Contains(Lower(Get(col, "purpose", "")), "date")
    IN  ColumnNames(Filter(columns, {x \in Elems(columns) : IsDate(x)}))

_extract_where_conditions(query, columns) ==
    LET query_lower == Lower(query)
        year == YearMatch(query)
        date_cols == DateColumns(columns)
        IsStatus(col) == Contains(Lower(col.column_name), "status")
        status_cols == ColumnNames(Filter(columns, {x \in Elems(columns) : IsStatus(x)}))
        salary_match == SalaryMatch(query_lower)
        amount == RemoveCommas(salary_match, 1)
        IsSalary(col) == Contains(Lower(col.column_name), "salary")
        salary_cols == ColumnNames(Filter(columns, {x \in Elems(columns) : IsSalary(x)}))
    IN  (IF year # None /\ date_cols # <<>>
         THEN <<"strftime('%Y', " \o date_cols[1] \o ") = '" \o year \o "'">>
         ELSE <<>>)
     \o (IF Contains(query_lower, "active") /\ status_cols # <<>>
         THEN <<status_cols[1] \o " = 'active'">>
         ELSE <<>>)
     \o (IF salary_match # None /\ salary_cols # <<>>
         THEN IF \/ Contains(query_lower, ">") \/ Contains(query_lower, "above")
                 \/ Contains(query_lower, "more than")
              THEN <<salary_cols[1] \o " > " \o amount>>
              ELSE IF \/ Contains(query_lower, "<") \/ Contains(query_lower, "below")
                      \/ Contains(query_lower, "less than")
                   THEN <<salary_cols[1] \o " < " \o amount>>
                   ELSE <<>>
         ELSE <<>>)

RECURSIVE JoinsFrom(_, _)
JoinsFrom(tables, i) ==
    IF i > Len(tables) THEN <<>>
    ELSE LET primary_table == tables[1].table_name
             secondary_table == tables[i].table_name
         IN  (IF /\ Contains(Lower(secondary_table), "department")
                 /\ Contains(Lower(primary_table), "employee")
              THEN <<"LEFT JOIN " \o secondary_table \o " ON " \o primary_table
                     \o ".department_id = " \o secondary_table \o ".id">>
              ELSE IF /\ Contains(Lower(secondary_table), "employee")
                      /\ Contains(Lower(primary_table), "department")
                   THEN <<"LEFT JOIN " \o secondary_table \o " ON " \o primary_table
                          \o ".id = " \o secondary_table \o ".department_id">>
                   ELSE <<>>)
             \o JoinsFrom(tables, i + 1)

\* a join generation that looks at the two highest-relevance tables only
_generate_joins_first_pair(tables) ==
    JoinsFrom(SubSeq(tables, 1, Min(2, Len(tables))), 2)

_generate_joins(tables) == JoinsFrom(tables, 2)

\* `if sql_parts["limit"]:` is false for None and for 0
_build_sql_string(sql_parts) ==
    "SELECT " \o Join(", ", sql_parts.select)
    \o " FROM " \o sql_parts.from
    \o (IF sql_parts.joins # <<>> THEN " " \o Join(" ", sql_parts.joins) ELSE "")
    \o (IF sql_parts.where # <<>> THEN " WHERE " \o Join(" AND ", sql_parts.where) ELSE "")
    \o (IF sql_parts.group_by # <<>> THEN " GROUP BY " \o Join(", ", sql_parts.group_by) ELSE "")
    \o (IF sql_parts.order_by # <<>> THEN " ORDER BY " \o Join(", ", sql_parts.order_by) ELSE "")
    \o (IF sql_parts.limit # NoLimit /\ sql_parts.limit[1] # 0
        THEN " LIMIT " \o ToString(sql_parts.limit[1]) ELSE "")

\* the parts _generate_sql_query hands to _build_sql_string (suggested_tables non-empty)
SqlParts(natural_query, mapping) ==
    LET query_lower == Lower(natural_query)
        query_type == Get(mapping, "query_type", "general")
        suggested_tables == Get(mapping, "suggested_tables", <<>>)
        suggested_columns == Get(mapping, "suggested_columns", <<>>)
        primary_table == suggested_tables[1].table_name
        columns == ColumnsFor(suggested_columns, primary_table)
        numeric_cols == _find_numeric_columns(columns)
        relevant_cols == _get_relevant_columns(columns)
        group_cols == _find_grouping_columns(natural_query, columns)
        limit_match == LimitMatch(query_lower)
        select ==
            IF query_type = "count" THEN <<"COUNT(*) as count">>
            ELSE IF query_type = "aggregation" THEN
                IF numeric_cols # <<>> THEN
                    IF Contains(query_lower, "average") \/ Contains(query_lower, "avg")
                    THEN <<"AVG(" \o numeric_cols[1] \o ") as average_" \o numeric_cols[1]>>
                    ELSE <<"AVG(" \o numeric_cols[1] \o ") as average">>
                ELSE <<"COUNT(*) as count">>
            ELSE IF query_type = "sum" THEN
                IF numeric_cols # <<>>
                THEN <<"SUM(" \o numeric_cols[1] \o ") as total_" \o numeric_cols[1]>>
                ELSE <<"*">>
            ELSE IF query_type = "ranking" THEN
                IF relevant_cols # <<>> THEN relevant_cols ELSE <<"*">>
            ELSE IF query_type = "grouping" THEN
                IF group_cols # <<>> THEN group_cols \o <<"COUNT(*) as count">> ELSE <<"*">>
            ELSE IF relevant_cols # <<>> THEN relevant_cols ELSE <<"*">>
        order_by ==
            IF query_type # "ranking" THEN <<>>
            ELSE IF \/ Contains(query_lower, "highest") \/ Contains(query_lower, "max")
                    \/ Contains(query_lower, "top")
                 THEN IF numeric_cols # <<>> THEN <<numeric_cols[1] \o " DESC">> ELSE <<>>
                 ELSE IF \/ Contains(query_lower, "lowest") \/ Contains(query_lower, "min")
                         \/ Contains(query_lower, "bottom")
                      THEN IF numeric_cols # <<>> THEN <<numeric_cols[1] \o " ASC">> ELSE <<>>
                      ELSE <<>>
        limit ==
            IF query_type = "ranking" /\ AnyIn(<<"top", "bottom">>, query_lower)
            THEN IF limit_match # None THEN <<ParseInt(limit_match, 1, 0)>> ELSE <<10>>
            ELSE NoLimit
    IN  [select |-> select,
         from |-> primary_table,
         joins |-> IF Len(suggested_tables) > 1 THEN _generate_joins(suggested_tables) ELSE <<>>,
         where |-> _extract_where_conditions(natural_query, columns),
         group_by |-> IF query_type = "grouping" THEN group_cols ELSE <<>>,
         order_by |-> order_by,
         limit |-> limit]

\* a synthesis that takes the last suggested table as the primary table
_generate_sql_query_last_table(natural_query, mapping) ==
    LET suggested_tables == Get(mapping, "suggested_tables", <<>>)
        reversed == [i \in 1..Len(suggested_tables) |->
                        suggested_tables[Len(suggested_tables) + 1 - i]]
    IN  IF suggested_tables = <<>> THEN None
        ELSE _build_sql_string(SqlParts(natural_query,
                                        [mapping EXCEPT !.suggested_tables = reversed]))

_generate_sql_query(natural_query, mapping) ==
    IF Get(mapping, "suggested_tables", <<>>) = <<>> THEN None
    ELSE _build_sql_string(SqlParts(natural_query, mapping))

(***************************************************************************)
(* The state machine: one SQLiteSchemaDiscovery on one database file, and  *)
(* a caller that connects, analyzes, maps a query, synthesizes its SQL and *)
(* disconnects, in any order the objects allow.                            *)
(***************************************************************************)
VARIABLES
    db,             \* the database behind db_path
    db_exists,      \* os.path.exists(db_path)
    connection,     \* SQLiteSchemaDiscovery.connection: None or "open"
    established,    \* history: a connect succeeded and no disconnect followed it
    schema_info,    \* the snapshot the caller holds (NoSnapshot before the first analysis)
    pc,             \* the caller's position in the mapping pipeline
    natural_query,  \* the query being processed
    mapping,        \* the mapping of natural_query
    sql_query,      \* the SQL synthesized from the mapping
    last_call,      \* the last operation called and what it returned or raised
    engine_connection,  \* NaturalLanguageQueryEngine.connection: None, "open" or "closed"
    engine_established, \* history: an engine connect returned True and no disconnect followed it
    returned,       \* what the engine's last call returned (None before the first)
    trace           \* the steps the last execute_query went through

\* the variables of the query engine that wraps the schema discovery
engine_vars == <<engine_connection, engine_established, returned, trace>>

vars == <<db, db_exists, connection, established, schema_info, pc,
          natural_query, mapping, sql_query, last_call, engine_vars>>

Queries == {
    "what is the average salary?",
    "how many employees are there?",
    "show top 5 highest paid employees",
    "show employees hired in 2023",
    "Status and Name",
    "List all Departments",
    "hello there",
    "name and location of employees",
    "staff with salary > 50,000" }

Init ==
    /\ db \in BoundedDatabases
    /\ db_exists \in BOOLEAN
    /\ connection = None
    /\ established = FALSE
    /\ schema_info = NoSnapshot
    /\ pc = "idle"
    /\ natural_query = None
    /\ mapping = NoMapping
    /\ sql_query = None
    /\ last_call = [op |-> "__init__", result |-> "None"]
    /\ engine_connection = None
    /\ engine_established = FALSE
    /\ returned = None
    /\ trace = <<>>

\* the database file is removed, or put back
FileChange ==
    /\ pc = "idle"
    /\ db_exists' = ~db_exists
    /\ UNCHANGED <<db, connection, established, schema_info, pc,
                   natural_query, mapping, sql_query, last_call>>
    /\ UNCHANGED engine_vars

\* a disconnect that closes the connection and keeps the closed object
disconnect_keeps_connection ==
    /\ pc = "idle"
    /\ established' = FALSE
    /\ last_call' = [op |-> "disconnect", result |-> "None"]
    /\ UNCHANGED <<db, db_exists, connection, schema_info, pc,
                   natural_query, mapping, sql_query>>
    /\ UNCHANGED engine_vars

connect ==
    /\ pc = "idle"
    /\ IF ~db_exists
       THEN /\ last_call' = [op |-> "connect", result |-> "False"]
            /\ UNCHANGED <<connection, established>>
       ELSE /\ connection' = "open"
            /\ established' = TRUE
            /\ last_call' = [op |-> "connect", result |-> "True"]
    /\ UNCHANGED <<db, db_exists, schema_info, pc, natural_query, mapping, sql_query>>
    /\ UNCHANGED engine_vars

disconnect ==
    /\ pc = "idle"
    /\ connection' = None
    /\ established' = FALSE
    /\ last_call' = [op |-> "disconnect", result |-> "None"]
    /\ UNCHANGED <<db, db_exists, schema_info, pc, natural_query, mapping, sql_query>>
    /\ UNCHANGED engine_vars

AnalyzeDatabase ==
    /\ pc = "idle"
    /\ IF connection = None
       THEN /\ last_call' = [op |-> "analyze_database", result |-> "ValueError"]
            /\ UNCHANGED schema_info
       ELSE /\ schema_info' = analyze_database(db)
            /\ last_call' = [op |-> "analyze_database", result |-> "snapshot"]
    /\ UNCHANGED <<db, db_exists, connection, established, pc,
                   natural_query, mapping, sql_query>>
    /\ UNCHANGED engine_vars

\* a mapper that sorts the snapshot's own table list in place, last table first
MapQuery_sorting_snapshot(query) ==
    /\ pc = "idle"
    /\ schema_info # NoSnapshot
    /\ natural_query' = query
    /\ mapping' = map_natural_language_to_schema(query, schema_info)
    /\ sql_query' = None
    /\ pc' = "mapped"
    /\ last_call' = [op |-> "map_natural_language_to_schema", result |-> "mapping"]
    /\ schema_info' = [schema_info EXCEPT !.tables =
                          [i \in 1..Len(@) |-> @[Len(@) + 1 - i]]]
    /\ UNCHANGED <<db, db_exists, connection, established>>
    /\ UNCHANGED engine_vars

MapQuery(query) ==
    /\ pc = "idle"
    /\ schema_info # NoSnapshot
    /\ natural_query' = query
    /\ mapping' = map_natural_language_to_schema(query, schema_info)
    /\ sql_query' = None
    /\ pc' = "mapped"
    /\ last_call' = [op |-> "map_natural_language_to_schema", result |-> "mapping"]
    /\ UNCHANGED <<db, db_exists, connection, established, schema_info>>
    /\ UNCHANGED engine_vars

GenerateSql ==
    /\ pc = "mapped"
    /\ sql_query' = _generate_sql_query(natural_query, mapping)
    /\ pc' = "generated"
    /\ last_call' = [op |-> "_generate_sql_query", result |-> "sql"]
    /\ UNCHANGED <<db, db_exists, connection, established, schema_info,
                   natural_query, mapping>>
    /\ UNCHANGED engine_vars

\* the caller is done with the mapping and the SQL
Return ==
    /\ pc = "generated"
    /\ pc' = "idle"
    /\ natural_query' = None
    /\ mapping' = NoMapping
    /\ sql_query' = None
    /\ last_call' = [op |-> "return", result |-> "None"]
    /\ UNCHANGED <<db, db_exists, connection, established, schema_info>>
    /\ UNCHANGED engine_vars

Next ==
    \/ FileChange
    \/ connect
    \/ disconnect
    \/ AnalyzeDatabase
    \/ \E query \in Queries : MapQuery(query)
    \/ GenerateSql
    \/ Return

Spec == Init /\ [][Next]_vars

(***************************************************************************)
(* Schema analysis on a database where introspection statements fail: the  *)
(* object is constructed on an existing database of FaultyDatabases,       *)
(* connected, analysed and disconnected in any order.                      *)
(***************************************************************************)
FaultInit ==
    /\ db \in FaultyDatabases
    /\ db_exists = TRUE
    /\ connection = None
    /\ established = FALSE
    /\ schema_info = NoSnapshot
    /\ pc = "idle"
    /\ natural_query = None
    /\ mapping = NoMapping
    /\ sql_query = None
    /\ last_call = [op |-> "__init__", result |-> "None"]
    /\ engine_connection = None
    /\ engine_established = FALSE
    /\ returned = None
    /\ trace = <<>>

FaultNext ==
    \/ connect
    \/ disconnect
    \/ AnalyzeDatabase

FaultSpec == FaultInit /\ [][FaultNext]_vars

\* the mapping pipeline on a database some of whose introspection statements fail
FaultMapNext ==
    \/ connect
    \/ AnalyzeDatabase
    \/ \E query \in Queries : MapQuery(query)
    \/ GenerateSql
    \/ Return

FaultMapSpec == FaultInit /\ [][FaultMapNext]_vars

(***************************************************************************)
(* The query engine (NaturalLanguageQueryEngine).  It owns a schema        *)
(* discovery (connection, established above), a connection of its own      *)
(* (engine_connection) and the cached snapshot (schema_info).  A result     *)
(* list is modelled by its length.                                         *)
(***************************************************************************)
\* what the database answers to a SQL statement on an open connection: rows, or an
\* error (the generated JOIN names a column that is ambiguous or missing, the
\* database is locked)
SqlErrors == {"ambiguous column name: id", "database is locked"}

Outcomes ==
    {[ok |-> TRUE, rows |-> n, error |-> ""] : n \in 0..MaxRows}
        \cup {[ok |-> FALSE, rows |-> 0, error |-> e] : e \in SqlErrors}

\* cursor() on a connection that is None or closed raises
ConnectionError(conn) ==
    IF conn = None THEN "'NoneType' object has no attribute 'cursor'"
    ELSE "Cannot operate on a closed database."

\* _execute_sql_query: the rows, or the error it re-raises
_execute_sql_query(conn, outcome) ==
    IF conn # "open" THEN [ok |-> FALSE, rows |-> 0, error |-> ConnectionError(conn)]
    ELSE outcome

Step(name, ok) == [step |-> name, ok |-> ok]

\* the bundle of the except clause of execute_query
FailureBundle(error) ==
    [sql_query |-> None, database_results |-> 0, document_results |-> 0,
     confidence |-> [num |-> 0, den |-> 1],
     message |-> "Query execution failed: " \o error]

\* _search_documents returns the empty list
_search_documents(query) == 0

\* a try block that executes whatever the synthesizer returned, None included
execute_query_try_unguarded(query, include_documents, m, sql, executed) ==
    IF ~executed.ok
    THEN [mapping |-> m, sql_query |-> sql,
          trace |-> <<Step("map", TRUE), Step("synthesize", TRUE),
                      Step("execute", FALSE)>>,
          returned |-> FailureBundle(executed.error)]
    ELSE [mapping |-> m, sql_query |-> sql,
          trace |-> <<Step("map", TRUE), Step("synthesize", TRUE), Step("execute", TRUE)>>
                      \o (IF include_documents THEN <<Step("documents", TRUE)>> ELSE <<>>),
          returned |->
             [sql_query |-> sql,
              database_results |-> executed.rows,
              document_results |-> IF include_documents THEN _search_documents(query)
                                   ELSE 0,
              mapping |-> m,
              confidence |-> m.confidence,
              message |-> "Query executed successfully"]]

\* the rest of the try block of execute_query once the mapping m and the SQL are
\* there, and its except clause: the locals, the steps gone through and the bundle
execute_query_try(query, include_documents, m, sql, executed) ==
    IF sql # None /\ ~executed.ok
    THEN [mapping |-> m, sql_query |-> sql,
          trace |-> <<Step("map", TRUE), Step("synthesize", TRUE),
                      Step("execute", FALSE)>>,
          returned |-> FailureBundle(executed.error)]
    ELSE [mapping |-> m, sql_query |-> sql,
          trace |-> <<Step("map", TRUE), Step("synthesize", TRUE)>>
                      \o (IF sql # None THEN <<Step("execute", TRUE)>> ELSE <<>>)
                      \o (IF include_documents THEN <<Step("documents", TRUE)>> ELSE <<>>),
          returned |->
             [sql_query |-> sql,
              database_results |-> IF sql # None THEN executed.rows ELSE 0,
              document_results |-> IF include_documents THEN _search_documents(query)
                                   ELSE 0,
              mapping |-> m,
              confidence |-> m.confidence,
              message |-> "Query executed successfully"]]

\* a try block that executes the SQL once more when the execution failed
execute_query_try_again(query, include_documents, m, sql, executed) ==
    IF sql # None /\ ~executed.ok
    THEN [mapping |-> m, sql_query |-> sql,
          trace |-> <<Step("map", TRUE), Step("synthesize", TRUE),
                      Step("execute", FALSE), Step("execute", FALSE)>>,
          returned |-> FailureBundle(executed.error)]
    ELSE execute_query_try(query, include_documents, m, sql, executed)

\* execute_query from the mapping m on
execute_query_mapped(query, include_documents, m, conn, outcome) ==
    execute_query_try(query, include_documents, m, _generate_sql_query(query, m),
                      _execute_sql_query(conn, outcome))

execute_query_mapped_again(query, include_documents, m, conn, outcome) ==
    execute_query_try_again(query, include_documents, m, _generate_sql_query(query, m),
                            _execute_sql_query(conn, outcome))

\* an execute_query that executes the SQL once more when the execution failed
execute_query_retrying(query, include_documents, snapshot, conn, outcome) ==
    IF snapshot = NoSnapshot
    THEN [mapping |-> NoMapping, sql_query |-> None,
          trace |-> <<Step("map", FALSE)>>,
          returned |-> FailureBundle("'NoneType' object has no attribute 'get'")]
    ELSE execute_query_mapped_again(query, include_documents,
                                    map_natural_language_to_schema(query, snapshot),
                                    conn, outcome)

\* execute_query: the locals it computed, the steps it went through and the bundle it
\* returns; it raises nothing
execute_query(query, include_documents, snapshot, conn, outcome) ==
    IF snapshot = NoSnapshot
    THEN [mapping |-> NoMapping, sql_query |-> None,
          trace |-> <<Step("map", FALSE)>>,
          returned |-> FailureBundle("'NoneType' object has no attribute 'get'")]
    ELSE execute_query_mapped(query, include_documents,
                              map_natural_language_to_schema(query, snapshot),
                              conn, outcome)

EngineInit ==
    /\ db \in FixedDatabases
    /\ db_exists \in BOOLEAN
    /\ connection = None
    /\ established = FALSE
    /\ schema_info = NoSnapshot
    /\ pc = "idle"
    /\ natural_query = None
    /\ mapping = NoMapping
    /\ sql_query = None
    /\ last_call = [op |-> "__init__", result |-> "None"]
    /\ engine_connection = None
    /\ engine_established = FALSE
    /\ returned = None
    /\ trace = <<>>

\* NaturalLanguageQueryEngine.connect: the discovery connects, the engine opens its own
\* connection and caches the snapshot; sqlite3.connect or the analysis may raise
EngineConnect ==
    /\ pc = "idle"
    /\ IF ~db_exists
       THEN /\ last_call' = [op |-> "engine.connect", result |-> "False"]
            /\ UNCHANGED <<connection, established, engine_connection, engine_established,
                           schema_info>>
       ELSE /\ connection' = "open"
            /\ established' = TRUE
            /\ \E raised \in {"nothing", "sqlite3.connect", "analyze_database"} :
                 /\ engine_connection' = IF raised = "sqlite3.connect"
                                         THEN engine_connection ELSE "open"
                 /\ schema_info' = IF raised = "nothing"
                                   THEN analyze_database(db) ELSE schema_info
                 /\ engine_established' = (raised = "nothing" \/ engine_established)
                 /\ last_call' = [op |-> "engine.connect",
                                  result |-> IF raised = "nothing" THEN "True" ELSE "False"]
    /\ UNCHANGED <<db, db_exists, pc, natural_query, mapping, sql_query, returned, trace>>

\* NaturalLanguageQueryEngine.disconnect: closes its connection, keeps the closed
\* object and the snapshot, and disconnects the discovery
EngineDisconnect ==
    /\ pc = "idle"
    /\ engine_connection' = IF engine_connection = None THEN None ELSE "closed"
    /\ engine_established' = FALSE
    /\ connection' = None
    /\ established' = FALSE
    /\ last_call' = [op |-> "engine.disconnect", result |-> "None"]
    /\ UNCHANGED <<db, db_exists, schema_info, pc, natural_query, mapping, sql_query,
                   returned, trace>>

\* the caller holds what a call of execute_query computed
ExecuteQueryReturns(query, call) ==
    /\ natural_query' = query
    /\ mapping' = call.mapping
    /\ sql_query' = call.sql_query
    /\ trace' = call.trace
    /\ returned' = call.returned

ExecuteQuery(query) ==
    /\ pc = "idle"
    /\ \E include_documents \in BOOLEAN, outcome \in Outcomes :
          ExecuteQueryReturns(query, execute_query(query, include_documents, schema_info,
                                                   engine_connection, outcome))
    /\ pc' = "returned"
    /\ last_call' = [op |-> "execute_query", result |-> "bundle"]
    /\ UNCHANGED <<db, db_exists, connection, established, schema_info, engine_connection,
                   engine_established>>

\* the caller is done with what the engine returned
EngineReturn ==
    /\ pc = "returned"
    /\ pc' = "idle"
    /\ natural_query' = None
    /\ mapping' = NoMapping
    /\ sql_query' = None
    /\ returned' = None
    /\ trace' = <<>>
    /\ last_call' = [op |-> "return", result |-> "None"]
    /\ UNCHANGED <<db, db_exists, connection, established, schema_info, engine_connection,
                   engine_established>>

EngineNext ==
    \/ FileChange
    \/ EngineConnect
    \/ EngineDisconnect
    \/ \E query \in Queries : ExecuteQuery(query)
    \/ EngineReturn

EngineSpec == EngineInit /\ [][EngineNext]_vars

(***************************************************************************)
(* The query suggestions: the engine on databases of up to                 *)
(* MaxSuggestTables tables whose names give every purpose that has         *)
(* templates, several times over, and purposes that have none.             *)
(***************************************************************************)
MaxSuggestTables == 3

\* the tables a database is made of, in name order
SuggestTablePool ==
    <<"departments", "employees", "payroll", "projects", "salaries", "staff", "teams",
      "users">>

SuggestTable(table_name) ==
    [name |-> table_name, columns |-> <<Column("id", "INTEGER", TRUE)>>,
     foreign_keys |-> <<>>, rows |-> 1, failing |-> {}]

SuggestDatabases ==
    {[i \in 1..Len(names) |-> SuggestTable(names[i])] :
        names \in {Filter(SuggestTablePool, chosen) :
                     chosen \in {c \in SUBSET Elems(SuggestTablePool) :
                                    Cardinality(c) <= MaxSuggestTables}}}

Suggestion(query, category) == [query |-> query, category |-> category]

\* the templates of a table purpose
Templates(purpose) ==
    IF purpose = "employees" THEN
        <<Suggestion("How many employees are there?", "Count"),
          Suggestion("Show all employees hired in 2024", "Filter"),
          Suggestion("List employees by department", "Group")>>
    ELSE IF purpose = "departments" THEN
        <<Suggestion("List all departments", "List"),
          Suggestion("Show departments with more than 10 employees", "Filter")>>
    ELSE IF purpose = "compensation" THEN
        <<Suggestion("What is the average salary?", "Aggregation"),
          Suggestion("Show top 5 highest paid employees", "Ranking")>>
    ELSE <<>>

GenericSuggestions ==
    <<Suggestion("Show me recent data", "Recent"),
      Suggestion("Find records with high values", "Filter"),
      Suggestion("Group data by categories", "Group")>>

RECURSIVE TableSuggestions(_, _)
TableSuggestions(tables, i) ==
    IF i > Len(tables) THEN <<>>
    ELSE Templates(Get(tables[i], "purpose", "unknown")) \o TableSuggestions(tables, i + 1)

\* suggestions without the cut to ten entries
generate_query_suggestions_uncut(snapshot) ==
    IF snapshot = NoSnapshot THEN <<>>
    ELSE TableSuggestions(Get(snapshot, "tables", <<>>), 1) \o GenericSuggestions

generate_query_suggestions(snapshot) ==
    IF snapshot = NoSnapshot THEN <<>>
    ELSE LET suggestions == TableSuggestions(Get(snapshot, "tables", <<>>), 1)
                                \o GenericSuggestions
         IN  SubSeq(suggestions, 1, Min(10, Len(suggestions)))

SuggestInit ==
    /\ db \in SuggestDatabases
    /\ db_exists = TRUE
    /\ connection = None
    /\ established = FALSE
    /\ schema_info = NoSnapshot
    /\ pc = "idle"
    /\ natural_query = None
    /\ mapping = NoMapping
    /\ sql_query = None
    /\ last_call = [op |-> "__init__", result |-> "None"]
    /\ engine_connection = None
    /\ engine_established = FALSE
    /\ returned = None
    /\ trace = <<>>

GenerateSuggestions ==
    /\ pc = "idle"
    /\ returned' = generate_query_suggestions(schema_info)
    /\ pc' = "returned"
    /\ last_call' = [op |-> "generate_query_suggestions", result |-> "suggestions"]
    /\ UNCHANGED <<db, db_exists, connection, established, schema_info, natural_query,
                   mapping, sql_query, engine_connection, engine_established, trace>>

SuggestNext ==
    \/ EngineConnect
    \/ EngineDisconnect
    \/ GenerateSuggestions
    \/ EngineReturn

SuggestSpec == SuggestInit /\ [][SuggestNext]_vars

(***************************************************************************)
(* The purpose inference: the analysis of databases of one table, whose    *)
(* table name or column is drawn from the keywords the inference looks     *)
(* for, from names that hold several keywords and from names that hold     *)
(* none.                                                                   *)
(***************************************************************************)
PurposeTableNames ==
    {"employee", "emp", "staff", "personnel", "worker", "user", "person",
     "department", "dept", "division", "unit", "team", "group",
     "salary", "compensation", "pay", "wage", "payroll", "earning",
     "project", "assignment", "task", "work", "job",
     "role", "position", "title", "designation",
     "document", "doc", "file", "attachment", "record",
     "order", "purchase", "sale", "transaction",
     "product", "item", "inventory", "stock",
     "customer", "client", "contact",
     "job_titles", "staff_jobs", "work_orders", "team_documents", "client_files",
     "item_sales", "community_posts", "EMPLOYEES", "Job_Roles", "misc", "notes"}

PurposeColumnNames ==
    {"id", "key", "dept_id",
     "name", "title", "label", "fname", "lname", "first_name", "last_name",
     "email", "mail", "e_mail",
     "phone", "tel", "mobile", "contact",
     "date", "time", "created", "updated", "modified", "timestamp",
     "salary", "wage", "pay", "compensation", "amount", "price", "cost",
     "address", "location", "city", "state", "country", "zip", "postal",
     "status", "category", "type", "kind",
     "paid_amount", "valid_from", "contact_email", "hotel", "Created_By",
     "estate_price", "typed_label"}

\* names that hold no keyword: the declared type decides
PlainColumnNames == {"notes", "flag"}

DeclaredTypes ==
    {"INTEGER", "INT", "TEXT", "VARCHAR(50)", "CHARACTER(20)", "STRING", "NUMERIC",
     "DECIMAL(10,2)", "FLOAT", "REAL", "DOUBLE", "DATE", "TIME", "TIMESTAMP", "DATETIME",
     "BOOLEAN", "bool", "BLOB", "POINT", ""}

PurposeTable(table_name, column) ==
    [name |-> table_name, columns |-> <<column>>, foreign_keys |-> <<>>, rows |-> 1,
     failing |-> {}]

PurposeDatabases ==
    {<<PurposeTable(table_name, Column("paid_amount", "DECIMAL(10,2)", FALSE))>> :
        table_name \in PurposeTableNames}
    \cup {<<PurposeTable("misc", Column(column_name, "BLOB", FALSE))>> :
            column_name \in PurposeColumnNames}
    \cup {<<PurposeTable("misc", Column(column_name, column_type, FALSE))>> :
            column_name \in PlainColumnNames, column_type \in DeclaredTypes}

PurposeInit ==
    /\ db \in PurposeDatabases
    /\ db_exists = TRUE
    /\ connection = None
    /\ established = FALSE
    /\ schema_info = NoSnapshot
    /\ pc = "idle"
    /\ natural_query = None
    /\ mapping = NoMapping
    /\ sql_query = None
    /\ last_call = [op |-> "__init__", result |-> "None"]
    /\ engine_connection = None
    /\ engine_established = FALSE
    /\ returned = None
    /\ trace = <<>>

PurposeNext ==
    \/ connect
    \/ AnalyzeDatabase
    \/ disconnect

PurposeSpec == PurposeInit /\ [][PurposeNext]_vars

(***************************************************************************)
(* The SQL synthesis on queries that ask for every clause: limits          *)
(* (among them 0), orderings, groupings, conditions and joins.             *)
(***************************************************************************)
BuildQueries ==
    {"show top 0 staff",
     "show top 3 staff",
     "lowest staff salary",
     "bottom staff with salary > 50,000",
     "active projects grouped by status in 2023",
     "projects in 2024",
     "employees and departments",
     "highest id of employees by department",
     "hello there"}

BuildInit ==
    /\ db \in FixedDatabases
    /\ db_exists = TRUE
    /\ connection = None
    /\ established = FALSE
    /\ schema_info = NoSnapshot
    /\ pc = "idle"
    /\ natural_query = None
    /\ mapping = NoMapping
    /\ sql_query = None
    /\ last_call = [op |-> "__init__", result |-> "None"]
    /\ engine_connection = None
    /\ engine_established = FALSE
    /\ returned = None
    /\ trace = <<>>

BuildNext ==
    \/ connect
    \/ AnalyzeDatabase
    \/ \E query \in BuildQueries : MapQuery(query)
    \/ GenerateSql
    \/ Return

BuildSpec == BuildInit /\ [][BuildNext]_vars

(***************************************************************************)
(* The SQL synthesis on queries that compare a salary with a number, by a  *)
(* comparison word or by a comparison sign.                                *)
(***************************************************************************)
WhereQueries ==
    {"staff with salary above 50000",
     "staff with salary more than 1",
     "staff with salary below 20",
     "staff with salary less than 30000",
     "staff with salary > 50,000",
     "staff with salary < 30000",
     "staff above salary 70000",
     "staff salary",
     "employees with salary above 50000"}

WhereNext ==
    \/ connect
    \/ AnalyzeDatabase
    \/ \E query \in WhereQueries : MapQuery(query)
    \/ GenerateSql
    \/ Return

WhereSpec == BuildInit /\ [][WhereNext]_vars

(***************************************************************************)
(* The SQL synthesis on databases of up to MaxJoinTables tables with two   *)
(* department-like tables, with and without the foreign key of employees,  *)
(* and on queries that suggest several tables.                             *)
(***************************************************************************)
MaxJoinTables == 3

SubDepartmentsTable ==
    [name |-> "sub_departments",
     columns |-> <<Column("id", "INTEGER", TRUE), Column("name", "TEXT", FALSE)>>,
     foreign_keys |-> <<>>, rows |-> 2, failing |-> {}]

\* `employees` without its foreign key declaration
EmployeesUnrelated == [EmployeesFixed EXCEPT !.foreign_keys = <<>>]

JoinDatabases ==
    {database \in
        {d \o e \o p \o s :
            d \in {<<>>, <<DepartmentsTable>>},
            e \in {<<>>, <<EmployeesFixed>>, <<EmployeesUnrelated>>},
            p \in {<<>>, <<ProjectsTable>>},
            s \in {<<>>, <<SubDepartmentsTable>>}} :
        Len(database) <= MaxJoinTables}

JoinQueries ==
    {"employees and departments",
     "employees projects name location",
     "employees id name location",
     "list employees",
     "hello there"}

JoinInit ==
    /\ db \in JoinDatabases
    /\ db_exists = TRUE
    /\ connection = None
    /\ established = FALSE
    /\ schema_info = NoSnapshot
    /\ pc = "idle"
    /\ natural_query = None
    /\ mapping = NoMapping
    /\ sql_query = None
    /\ last_call = [op |-> "__init__", result |-> "None"]
    /\ engine_connection = None
    /\ engine_established = FALSE
    /\ returned = None
    /\ trace = <<>>

JoinNext ==
    \/ connect
    \/ AnalyzeDatabase
    \/ \E query \in JoinQueries : MapQuery(query)
    \/ GenerateSql
    \/ Return

JoinSpec == JoinInit /\ [][JoinNext]_vars

(***************************************************************************)
(* Every reader of the cached snapshot on one engine: the mapper and the   *)
(* synthesizer called by hand, execute_query, explain_query and            *)
(* generate_query_suggestions, between connects and disconnects.           *)
(***************************************************************************)
FrameQueries ==
    { "how many employees are there?",
      "employees and departments",
      "hello there" }

\* what explain_query returns, without the explanation text, which is formatted from
\* these same values
explain_query(query, snapshot) ==
    LET m == map_natural_language_to_schema(query, snapshot)
    IN  [original_query |-> query,
         query_type |-> m.query_type,
         confidence |-> m.confidence,
         suggested_tables |-> m.suggested_tables,
         suggested_columns |-> m.suggested_columns,
         generated_sql |-> _generate_sql_query(query, m),
         sql_hints |-> m.sql_hints]

\* explain_query: without a snapshot the mapper raises and the exception is raised
\* again to the caller
ExplainQuery(query) ==
    /\ pc = "idle"
    /\ IF schema_info = NoSnapshot
       THEN /\ last_call' = [op |-> "explain_query", result |-> "AttributeError"]
            /\ UNCHANGED <<pc, natural_query, mapping, sql_query, returned>>
       ELSE /\ natural_query' = query
            /\ mapping' = map_natural_language_to_schema(query, schema_info)
            /\ returned' = explain_query(query, schema_info)
            /\ sql_query' = returned'.generated_sql
            /\ pc' = "returned"
            /\ last_call' = [op |-> "explain_query", result |-> "explanation"]
    /\ UNCHANGED <<db, db_exists, connection, established, schema_info,
                   engine_connection, engine_established, trace>>

FrameNext ==
    \/ EngineConnect
    \/ EngineDisconnect
    \/ \E query \in FrameQueries : MapQuery(query)
    \/ GenerateSql
    \/ Return
    \/ \E query \in FrameQueries : ExecuteQuery(query)
    \/ \E query \in FrameQueries : ExplainQuery(query)
    \/ GenerateSuggestions
    \/ EngineReturn

FrameSpec == BuildInit /\ [][FrameNext]_vars

(***************************************************************************)
(* The SQL synthesis of grouping queries, on tables with columns that the  *)
(* grouping keyword groups name: a state, a city, a department, a status.  *)
(***************************************************************************)
MaxGroupTables == 2

EmployeesByState ==
    [name |-> "employees",
     columns |-> <<Column("state", "TEXT", FALSE), Column("department", "TEXT", FALSE)>>,
     foreign_keys |-> <<>>, rows |-> 1, failing |-> {}]

OfficesTable ==
    [name |-> "offices",
     columns |-> <<Column("city", "TEXT", FALSE), Column("status", "TEXT", FALSE)>>,
     foreign_keys |-> <<>>, rows |-> 1, failing |-> {}]

GroupDatabases ==
    {database \in
        {d \o e \o o \o p :
            d \in {<<>>, <<DepartmentsTable>>},
            e \in {<<>>, <<EmployeesByState>>},
            o \in {<<>>, <<OfficesTable>>},
            p \in {<<>>, <<ProjectsTable>>}} :
        Len(database) <= MaxGroupTables}

GroupQueries ==
    {"employees grouped by state",
     "employees grouped by department",
     "employees grouped by state and department",
     "employees grouped by city",
     "offices grouped by city and status",
     "offices grouped by country",
     "projects grouped by status",
     "employees grouped by name",
     "list employees"}

GroupInit ==
    /\ db \in GroupDatabases
    /\ db_exists = TRUE
    /\ connection = None
    /\ established = FALSE
    /\ schema_info = NoSnapshot
    /\ pc = "idle"
    /\ natural_query = None
    /\ mapping = NoMapping
    /\ sql_query = None
    /\ last_call = [op |-> "__init__", result |-> "None"]
    /\ engine_connection = None
    /\ engine_established = FALSE
    /\ returned = None
    /\ trace = <<>>

GroupNext ==
    \/ connect
    \/ AnalyzeDatabase
    \/ \E query \in GroupQueries : MapQuery(query)
    \/ GenerateSql
    \/ Return

GroupSpec == GroupInit /\ [][GroupNext]_vars

(***************************************************************************)
(* The classifier alone: a caller classifies queries made of the words the *)
(* classifier looks for, of other words, and of words in capitals.         *)
(***************************************************************************)
MaxPhrases == 2

ClassifierWords ==
    {"count", "how many", "number of", "total",
     "average", "avg", "mean",
     "highest", "lowest", "top", "bottom", "max", "min",
     "sum", "total amount", "sum of",
     "group by", "by department", "by role", "grouped by",
     "list", "show", "display", "get", "find", "all",
     "hello", "employees", "AVERAGE", "Top", "How Many"}

\* the queries of exactly n words, of at most n words
QueriesOfLen(n) ==
    {Join(" ", words) : words \in [1..n -> ClassifierWords]}

ClassifierQueries == UNION {QueriesOfLen(n) : n \in 1..MaxPhrases}

ClassifyInit ==
    /\ db = <<>>
    /\ db_exists = FALSE
    /\ connection = None
    /\ established = FALSE
    /\ schema_info = NoSnapshot
    /\ pc = "idle"
    /\ natural_query = None
    /\ mapping = NoMapping
    /\ sql_query = None
    /\ last_call = [op |-> "__init__", result |-> "None"]
    /\ engine_connection = None
    /\ engine_established = FALSE
    /\ returned = None
    /\ trace = <<>>

Classify(query) ==
    /\ pc = "idle"
    /\ natural_query' = query
    /\ pc' = "classified"
    /\ last_call' = [op |-> "_classify_query_type", result |-> _classify_query_type(query)]
    /\ UNCHANGED <<db, db_exists, connection, established, schema_info, mapping,
                   sql_query>>
    /\ UNCHANGED engine_vars

\* the caller is done with the query type
ClassifyReturn ==
    /\ pc = "classified"
    /\ pc' = "idle"
    /\ natural_query' = None
    /\ last_call' = [op |-> "return", result |-> "None"]
    /\ UNCHANGED <<db, db_exists, connection, established, schema_info, mapping,
                   sql_query>>
    /\ UNCHANGED engine_vars

ClassifyNext ==
    \/ \E query \in ClassifierQueries : Classify(query)
    \/ ClassifyReturn

ClassifySpec == ClassifyInit /\ [][ClassifyNext]_vars

(***************************************************************************)
(* Properties.                                                             *)
(***************************************************************************)
Mapped == pc \in {"mapped", "generated"}
Generated == pc = "generated"

\* the position of a table in the snapshot, of a column in its table
TableIndex(table_name) ==
    CHOOSE i \in 1..Len(schema_info.tables) : schema_info.tables[i].table_name = table_name

ColumnIndex(table_name, column_name) ==
    LET cols == schema_info.tables[TableIndex(table_name)].info.columns
    IN  CHOOSE k \in 1..Len(cols) : cols[k].name = column_name

\* the relevance the scorer gives table i of the snapshot for the current query
TableScore(i) ==
    _calculate_table_relevance(Lower(natural_query), schema_info.tables[i].table_name,
                               schema_info.tables[i], schema_info.naming_patterns)

\* the relevance the scorer gives column k of table i for the current query
ColumnScore(i, k) ==
    LET cols == schema_info.tables[i].info.columns
    IN  _calculate_column_relevance(Lower(natural_query), cols[k].name, cols[k],
                                    schema_info.naming_patterns)

AllSuggestedColumns ==
    UNION {{mapping.suggested_columns[i].columns[k] :
               k \in 1..Len(mapping.suggested_columns[i].columns)} :
           i \in 1..Len(mapping.suggested_columns)}

\* C1: every table relevance, every column relevance and the confidence of a
\* mapping lie in [0, 1] (relevances are in tenths, the confidence is num/den).
C1_ScoresInUnitInterval ==
    Mapped =>
        /\ \A i \in 1..Len(mapping.suggested_tables) :
              /\ mapping.suggested_tables[i].relevance >= 0
              /\ mapping.suggested_tables[i].relevance <= 10
        /\ \A c \in AllSuggestedColumns : c.relevance >= 0 /\ c.relevance <= 10
        /\ \A i \in 1..Len(schema_info.tables) : TableScore(i) >= 0 /\ TableScore(i) <= 10
        /\ mapping.confidence.den > 0
        /\ mapping.confidence.num >= 0
        /\ mapping.confidence.num <= mapping.confidence.den

\* C1 witness: a mapping in which a table's and a column's sum exceeded 1 and was clamped.
C1_Witness ==
    /\ Mapped
    /\ \E i \in 1..Len(schema_info.tables) :
          /\ TableRelevanceSum(Lower(natural_query), schema_info.tables[i].table_name,
                               schema_info.tables[i], schema_info.naming_patterns) > 10
          /\ HasKey(mapping.suggested_tables, schema_info.tables[i].table_name)
          /\ Lookup(mapping.suggested_tables, schema_info.tables[i].table_name).relevance = 10
    /\ \E c \in AllSuggestedColumns : c.relevance = 10
    /\ mapping.confidence.num > 0

\* C2: a table of the snapshot is in suggested_tables iff its relevance is strictly
\* greater than 0.2, and a column of a suggested table is in that table's
\* suggested_columns iff its relevance is strictly greater than 0.1.
C2_ThresholdsDecideMembership ==
    Mapped =>
        \A i \in 1..Len(schema_info.tables) :
            LET table_name == schema_info.tables[i].table_name
                cols == schema_info.tables[i].info.columns
            IN  /\ HasKey(mapping.suggested_tables, table_name) <=> TableScore(i) > 2
                /\ HasKey(mapping.suggested_tables, table_name) =>
                      /\ HasKey(mapping.suggested_columns, table_name)
                      /\ \A k \in 1..Len(cols) :
                            (\E e \in 1..Len(Lookup(mapping.suggested_columns, table_name).columns) :
                                Lookup(mapping.suggested_columns, table_name).columns[e].column_name
                                    = cols[k].name)
                            <=> ColumnScore(i, k) > 1

\* C2 witness: a table scores exactly 0.2 and is left out while another table is suggested.
C2_Witness ==
    /\ Mapped
    /\ \E i \in 1..Len(schema_info.tables) :
          /\ TableScore(i) = 2
          /\ ~HasKey(mapping.suggested_tables, schema_info.tables[i].table_name)
    /\ mapping.suggested_tables # <<>>
    /\ AllSuggestedColumns # {}

\* C3: suggested_tables and each suggested_columns list are in non-increasing order
\* of relevance, and entries of equal relevance are in snapshot order.
C3_SortedAndStable ==
    Mapped =>
        /\ \A i, j \in 1..Len(mapping.suggested_tables) :
              i < j =>
                LET a == mapping.suggested_tables[i]
                    b == mapping.suggested_tables[j]
                IN  /\ a.relevance >= b.relevance
                    /\ a.relevance = b.relevance =>
                          TableIndex(a.table_name) < TableIndex(b.table_name)
        /\ \A t \in 1..Len(mapping.suggested_columns) :
              LET entry == mapping.suggested_columns[t] IN
              \A i, j \in 1..Len(entry.columns) :
                  i < j =>
                    LET a == entry.columns[i]
                        b == entry.columns[j]
                    IN  /\ a.relevance >= b.relevance
                        /\ a.relevance = b.relevance =>
                              ColumnIndex(entry.table_name, a.column_name)
                                  < ColumnIndex(entry.table_name, b.column_name)

\* C3 witness: two suggested tables tie, and the columns of a suggested table were
\* reordered by the sort (a column declared later comes first).
C3_Witness ==
    /\ Mapped
    /\ \E i, j \in 1..Len(mapping.suggested_tables) :
          /\ i < j
          /\ mapping.suggested_tables[i].relevance = mapping.suggested_tables[j].relevance
    /\ \E t \in 1..Len(mapping.suggested_columns) :
          LET entry == mapping.suggested_columns[t] IN
          \E i, j \in 1..Len(entry.columns) :
              /\ i < j
              /\ ColumnIndex(entry.table_name, entry.columns[i].column_name)
                    > ColumnIndex(entry.table_name, entry.columns[j].column_name)

\* the sort also reorders tables: a later table of the snapshot is ranked first
SortReordersTables ==
    /\ Mapped
    /\ \E i, j \in 1..Len(mapping.suggested_tables) :
          /\ i < j
          /\ TableIndex(mapping.suggested_tables[i].table_name)
                > TableIndex(mapping.suggested_tables[j].table_name)

\* the snapshot's entry of table `employees`, if it has one
HasEmployees == HasKey(schema_info.tables, "employees")
Employees == Lookup(schema_info.tables, "employees")

\* `employees` has the column, with the purpose
EmployeesHas(column_name, purpose) ==
    /\ HasEmployees
    /\ HasName(Employees.info.column_purposes, column_name)
    /\ NamedEntry(Employees.info.column_purposes, column_name).purpose = purpose

OnlyEmployees == Len(schema_info.tables) = 1 /\ HasEmployees

\* the number of columns of table i whose name occurs in the query
ColumnMatches(i) ==
    LET ColumnHit(col) == Contains(Lower(natural_query), Lower(col.name))
    IN  CountIdx(schema_info.tables[i].info.columns, {x \in Elems(schema_info.tables[i].info.columns) : ColumnHit(x)}, 1)

\* the query names no table, no synonym of a table's concept and no table's purpose
NoTableMentioned ==
    LET query_lower == Lower(natural_query) IN
    \A i \in 1..Len(schema_info.tables) :
        LET name_lower == Lower(schema_info.tables[i].table_name) IN
        /\ ~Contains(query_lower, name_lower)
        /\ ~Contains(query_lower, schema_info.tables[i].purpose)
        /\ \A e \in 1..Len(table_synonyms) :
              (table_synonyms[e].canonical = name_lower
                  \/ InList(name_lower, table_synonyms[e].synonyms))
              => /\ ~Contains(query_lower, table_synonyms[e].canonical)
                 /\ ~AnyIn(table_synonyms[e].synonyms, query_lower)

NothingMapped ==
    /\ mapping.suggested_tables = <<>>
    /\ sql_query = None
    /\ mapping.confidence.num = 0

\* C4 as stated: a query that names no table, synonym or purpose maps to nothing.
C4_Original == (Generated /\ NoTableMentioned) => NothingMapped

\* C4 as amended: a query that names no table, synonym or purpose, and in which at
\* most one column name of each table occurs, gives an empty suggested_tables, no
\* SQL and confidence 0.
C4_NoMentionAtMostOneColumn ==
    (Generated /\ NoTableMentioned /\ \A i \in 1..Len(schema_info.tables) : ColumnMatches(i) <= 1)
        => NothingMapped

\* C4 witness: no table is named, one column name of a table occurs in the query and
\* nothing is mapped.
C4_Witness ==
    /\ Generated
    /\ NoTableMentioned
    /\ \A i \in 1..Len(schema_info.tables) : ColumnMatches(i) <= 1
    /\ \E i \in 1..Len(schema_info.tables) : ColumnMatches(i) = 1
    /\ NothingMapped

\* C5 as stated: with `employees` (numeric column salary, purpose monetary) as the only
\* table, "what is the average salary?" is an aggregation whose SQL selects AVG(salary)
\* from employees.
C5_AverageSalary ==
    (/\ Generated
     /\ OnlyEmployees
     /\ EmployeesHas("salary", "monetary")
     /\ natural_query = "what is the average salary?")
        => /\ mapping.query_type = "aggregation"
           /\ sql_query # None
           /\ StartsAt(sql_query, 1, "SELECT AVG(salary)")
           /\ Contains(sql_query, " FROM employees")

\* C6 as stated: with `employees` as the only table, "how many employees are there?" is
\* a count whose SQL is exactly SELECT COUNT(*) FROM employees.
C6_Original ==
    (/\ Generated
     /\ OnlyEmployees
     /\ EmployeesHas("salary", "monetary")
     /\ natural_query = "how many employees are there?")
        => /\ mapping.query_type = "count"
           /\ sql_query = "SELECT COUNT(*) FROM employees"

\* C6 as amended: with `employees` as the only table, "how many employees are there?" is
\* a count whose SQL is exactly SELECT COUNT(*) as count FROM employees.
C6_CountEmployees ==
    (/\ Generated
     /\ OnlyEmployees
     /\ EmployeesHas("salary", "monetary")
     /\ natural_query = "how many employees are there?")
        => /\ mapping.query_type = "count"
           /\ sql_query = "SELECT COUNT(*) as count FROM employees"

\* C6 witness: the count query was synthesized for a database whose only table is
\* `employees`, with a salary column and another column.
C6_Witness ==
    /\ Generated
    /\ OnlyEmployees
    /\ EmployeesHas("salary", "monetary")
    /\ Len(Employees.info.columns) > 1
    /\ natural_query = "how many employees are there?"
    /\ sql_query # None

\* C7 as stated: with a numeric salary column in `employees`, whatever its other
\* columns, "show top 5 highest paid employees" is a ranking whose SQL contains
\* ORDER BY salary DESC followed by LIMIT 5.
C7_TopFiveBySalary ==
    (/\ Generated
     /\ OnlyEmployees
     /\ EmployeesHas("salary", "monetary")
     /\ natural_query = "show top 5 highest paid employees")
        => /\ mapping.query_type = "ranking"
           /\ sql_query # None
           /\ Contains(sql_query, " ORDER BY salary DESC LIMIT 5")

\* the position of a column in the declaration of `employees`, 0 if it is not declared
DeclaredAt(column_name) ==
    IF \E i \in 1..Len(Employees.info.columns) : Employees.info.columns[i].name = column_name
    THEN CHOOSE i \in 1..Len(Employees.info.columns) :
             Employees.info.columns[i].name = column_name
    ELSE 0

\* `employees` declares start_date, a synonym of hire_date, before hire_date
StartDateFirst ==
    /\ DeclaredAt("start_date") > 0
    /\ DeclaredAt("start_date") < DeclaredAt("hire_date")

HiredIn2023 ==
    /\ Generated
    /\ EmployeesHas("hire_date", "datetime")
    /\ natural_query = "show employees hired in 2023"

C10_AnalyzeNeedsConnection ==
    last_call.op = "analyze_database" =>
        /\ last_call.result = "snapshot" => established
        /\ ~established => last_call.result = "ValueError" 

\* C10 witness: analyze_database raises after a disconnect that followed a successful
\* connect and analysis.
C10_Witness ==
    /\ last_call.op = "analyze_database"
    /\ last_call.result = "ValueError"
    /\ schema_info # NoSnapshot
    /\ db_exists


(***************************************************************************)
(* Properties of the schema analysis under failing statements (FaultSpec). *)
(***************************************************************************)
Analysed == schema_info # NoSnapshot

\* the statements of _analyze_table
TableStatements == {"columns", "foreign_keys", "sample", "row_count"}

StructuralFailure(i) == db[i].failing \cap {"columns", "foreign_keys"} # {}

\* the entry of table i when every statement works
WorkingEntry(i) == analyze_database(Working(db)).tables[i]

\* C11: whatever introspection statements fail, the snapshot has an entry for every
\* enumerated table, in order; a table none of whose _analyze_table statements fails
\* has the entry it has when nothing fails; on a failing table a structural failure
\* empties the column and key lists, a sample failure empties the sample, a count
\* failure sets the row count to 0, and the fields no failure touches are as when
\* nothing fails.
C11_FailuresAreIsolated ==
    Analysed =>
        /\ Len(schema_info.tables) = Len(db)
        /\ \A i \in 1..Len(db) :
              LET entry == schema_info.tables[i] IN
              /\ entry.table_name = db[i].name
              /\ entry.purpose = WorkingEntry(i).purpose
              /\ db[i].failing \cap TableStatements = {} => entry = WorkingEntry(i)
              /\ StructuralFailure(i) =>
                    /\ entry.info.columns = <<>>
                    /\ entry.info.primary_keys = <<>>
                    /\ entry.info.foreign_keys = <<>>
              /\ "sample" \in db[i].failing => entry.info.sample_data = 0
              /\ "row_count" \in db[i].failing => entry.info.row_count = 0
              /\ ~StructuralFailure(i) =>
                    /\ entry.info.columns = WorkingEntry(i).info.columns
                    /\ entry.info.primary_keys = WorkingEntry(i).info.primary_keys
                    /\ entry.info.foreign_keys = WorkingEntry(i).info.foreign_keys
                    /\ entry.info.column_purposes = WorkingEntry(i).info.column_purposes
                    /\ "sample" \notin db[i].failing
                          => entry.info.sample_data = WorkingEntry(i).info.sample_data
                    /\ "row_count" \notin db[i].failing
                          => entry.info.row_count = WorkingEntry(i).info.row_count

\* C11 witness: a snapshot of two tables; the structural introspection of the first
\* failed and emptied its lists, the second has its columns, sample and row count.
C11_Witness ==
    /\ Analysed
    /\ Len(db) = 2
    /\ StructuralFailure(1)
    /\ schema_info.tables[1].info.columns = <<>>
    /\ db[2].failing = {}
    /\ schema_info.tables[2].info.columns # <<>>
    /\ schema_info.tables[2].info.row_count > 0
    /\ schema_info.tables[2].info.sample_data > 0

(***************************************************************************)
(* Properties of the query engine (EngineSpec).                            *)
(***************************************************************************)
Returned == pc = "returned" /\ last_call.op = "execute_query"

\* the number of times the last execute_query executed SQL
Executions == Cardinality({i \in 1..Len(trace) : trace[i].step = "execute"})

ExecutionFailed == \E i \in 1..Len(trace) : trace[i] = Step("execute", FALSE)

FailurePrefix == "Query execution failed: "

\* C12: when the execution of the generated SQL fails, execute_query returns (raises
\* nothing) a bundle with confidence 0, no database results, no document results and
\* a message that carries the error, and the SQL was executed once.
C12_ExecutionFailureIsReturned ==
    (Returned /\ ExecutionFailed) =>
        /\ last_call.result = "bundle"
        /\ returned.confidence.num = 0
        /\ returned.database_results = 0
        /\ returned.document_results = 0
        /\ Len(returned.message) > Len(FailurePrefix)
        /\ SubSeq(returned.message, 1, Len(FailurePrefix)) = FailurePrefix
        /\ Executions = 1

\* C12 witness: on an open connection the database rejected the SQL of a mapping with
\* positive confidence, and the bundle carries the database's error.
C12_Witness ==
    /\ Returned
    /\ ExecutionFailed
    /\ engine_connection = "open"
    /\ sql_query # None
    /\ mapping.confidence.num > 0
    /\ returned.message = FailurePrefix \o "ambiguous column name: id"
    /\ returned.confidence.num = 0

(***************************************************************************)
(* Properties of the SQL synthesis (Spec).                                 *)
(***************************************************************************)
\* the table named by the first FROM of the text: what follows the first " FROM " up
\* to the next space or the end of the text
FromTable(sql) ==
    LET starts == {i \in 1..Len(sql) : StartsAt(sql, i, " FROM ")}
        first == FirstIndex(starts) + Len(" FROM ")
        stop == RunEnd(sql, {Char(sql, i) : i \in 1..Len(sql)} \ SpaceSet, first)
    IN  IF starts = {} THEN None ELSE SubSeq(sql, first, stop - 1)

\* C13: _generate_sql_query returns None when suggested_tables is empty; otherwise it
\* returns a SQL text whose FROM table is the first entry of suggested_tables, which
\* has the highest relevance of the suggested tables.
C13_PrimaryTableIsFirstSuggested ==
    Generated =>
        IF mapping.suggested_tables = <<>> THEN sql_query = None
        ELSE /\ sql_query # None
             /\ SubSeq(sql_query, 1, Len("SELECT ")) = "SELECT "
             /\ FromTable(sql_query) = mapping.suggested_tables[1].table_name
             /\ \A k \in 1..Len(mapping.suggested_tables) :
                    mapping.suggested_tables[1].relevance
                        >= mapping.suggested_tables[k].relevance

\* C13 witness: two tables are suggested with different relevances, the more relevant
\* one is declared second in the database, and the SQL is synthesized from it.
C13_Witness ==
    /\ Generated
    /\ Len(mapping.suggested_tables) = 2
    /\ mapping.suggested_tables[1].relevance > mapping.suggested_tables[2].relevance
    /\ TableIndex(mapping.suggested_tables[1].table_name) = 2
    /\ sql_query # None
    /\ FromTable(sql_query) = mapping.suggested_tables[1].table_name

(***************************************************************************)
(* Properties of the classifier (ClassifySpec).                            *)
(***************************************************************************)
QueryTypes == {"count", "aggregation", "ranking", "sum", "grouping", "selection", "general"}

\* the categories in their priority order, each with its trigger phrases
TriggerPhrases ==
    <<[category |-> "count", phrases |-> {"count", "how many", "number of", "total"}],
      [category |-> "aggregation", phrases |-> {"average", "avg", "mean"}],
      [category |-> "ranking",
       phrases |-> {"highest", "lowest", "top", "bottom", "max", "min"}],
      [category |-> "sum", phrases |-> {"sum", "total amount", "sum of"}],
      [category |-> "grouping",
       phrases |-> {"group by", "by department", "by role", "grouped by"}],
      [category |-> "selection",
       phrases |-> {"list", "show", "display", "get", "find", "all"}]>>

\* the categories one of whose trigger phrases occurs in the text
Triggered(text) ==
    {i \in 1..Len(TriggerPhrases) : \E p \in TriggerPhrases[i].phrases : Contains(text, p)}

FirstCategory(text) ==
    IF Triggered(text) = {} THEN "general"
    ELSE TriggerPhrases[FirstIndex(Triggered(text))].category

Classified == pc = "classified"

\* C14: the classifier returns one of the seven query types: the first category, in
\* the order count, aggregation, ranking, sum, grouping, selection, one of whose
\* trigger phrases is a substring of the lower-cased query, and general when there is
\* none.  A query with "average" and "top" (and no count phrase) is an aggregation;
\* a query with "total amount" is a count.
C14_FirstTriggeredCategory ==
    Classified =>
        LET text == Lower(natural_query) IN
        /\ last_call.result \in QueryTypes
        /\ last_call.result = FirstCategory(text)
        /\ (Contains(text, "average") /\ Contains(text, "top") /\ 1 \notin Triggered(text))
               => last_call.result = "aggregation"
        /\ Contains(text, "total amount") => last_call.result = "count"

\* C14 witness: a query in capitals with an aggregation phrase and a ranking phrase
\* was classified as an aggregation.
C14_Witness ==
    /\ Classified
    /\ natural_query = "Top AVERAGE"
    /\ Triggered(Lower(natural_query)) = {2, 3}
    /\ last_call.result = "aggregation"

(***************************************************************************)
(* Properties of the confidence (FaultMapSpec).                            *)
(***************************************************************************)
RECURSIVE SumSeq(_)
SumSeq(values) == IF values = <<>> THEN 0 ELSE Head(values) + SumSeq(Tail(values))

\* the suggested tables that have at least one suggested column
Covered ==
    {i \in 1..Len(mapping.suggested_tables) :
        ColumnsFor(mapping.suggested_columns, mapping.suggested_tables[i].table_name) # <<>>}

\* 1000 * n * (0.4 * mean relevance + 0.3 * coverage + 0.3 * type confidence), where n
\* is the number of suggested tables and the relevances are in tenths
WeightedSum ==
    LET n == Len(mapping.suggested_tables)
        relevances == [i \in 1..n |-> mapping.suggested_tables[i].relevance]
    IN  40 * SumSeq(relevances) + 300 * Cardinality(Covered)
        + 3 * (IF mapping.query_type # "general" THEN 80 ELSE 40) * n

\* C15: with n > 0 suggested tables the confidence is min(1, 0.4 * mean relevance +
\* 0.3 * (suggested tables with a suggested column / n) + 0.3 * (0.8 if the query
\* type is not general, else 0.4)); with no suggested table it is 0.
C15_ConfidenceFormula ==
    Mapped =>
        LET n == Len(mapping.suggested_tables) IN
        IF n = 0 THEN mapping.confidence.num = 0
        ELSE mapping.confidence.num * 1000 * n
                = Min(WeightedSum, 1000 * n) * mapping.confidence.den

\* C15 witness: two suggested tables of different relevance, one of them without a
\* suggested column because the analysis of its columns failed.
C15_Witness ==
    /\ Mapped
    /\ Len(mapping.suggested_tables) = 2
    /\ mapping.suggested_tables[1].relevance # mapping.suggested_tables[2].relevance
    /\ Cardinality(Covered) = 1
    /\ mapping.confidence.num > 0
    /\ mapping.confidence.num < mapping.confidence.den

(***************************************************************************)
(* Properties of the SQL text (BuildSpec).                                 *)
(***************************************************************************)
\* the parts the current SQL was built from
Parts == SqlParts(natural_query, mapping)

\* the clause keywords in the order of the text, after SELECT
ClauseKeywords == <<" FROM ", " LEFT JOIN ", " WHERE ", " GROUP BY ", " ORDER BY ", " LIMIT ">>

\* where a keyword first occurs in the current SQL, 0 if it does not
Position(keyword) ==
    FirstIndex({i \in 1..Len(sql_query) : StartsAt(sql_query, i, keyword)})

\* C16 as stated: the SQL text has its clauses in the order SELECT, FROM, JOINs, WHERE
\* (conditions joined by AND), GROUP BY, ORDER BY, LIMIT, and a clause is in the text
\* if and only if its part is non-empty; LIMIT if and only if a limit was set, 0 included.
C16_ClausesInOrder ==
    (Generated /\ sql_query # None) =>
        /\ SubSeq(sql_query, 1, Len("SELECT ")) = "SELECT "
        /\ Position(" FROM ") > 0
        /\ Position(" LEFT JOIN ") > 0 <=> Parts.joins # <<>>
        /\ Position(" WHERE ") > 0 <=> Parts.where # <<>>
        /\ Position(" GROUP BY ") > 0 <=> Parts.group_by # <<>>
        /\ Position(" ORDER BY ") > 0 <=> Parts.order_by # <<>>
        /\ Position(" LIMIT ") > 0 <=> Parts.limit # NoLimit
        /\ \A a, b \in 1..Len(ClauseKeywords) :
              (a < b /\ Position(ClauseKeywords[a]) > 0 /\ Position(ClauseKeywords[b]) > 0)
                 => Position(ClauseKeywords[a]) < Position(ClauseKeywords[b])
        /\ Parts.where # <<>> =>
              Contains(sql_query, " WHERE " \o Join(" AND ", Parts.where))

(***************************************************************************)
(* Properties of the analysis of an empty database (Spec).                 *)
(***************************************************************************)
\* C17: on a database without user tables, analyze_database on a connected object
\* raises nothing and returns a snapshot with no tables, no relationships,
\* total_tables = 0, total_rows = 0 and no per-table row count.
C17_EmptyDatabaseAnalyses ==
    (last_call.op = "analyze_database" /\ connection # None /\ db = <<>>) =>
        /\ last_call.result = "snapshot"
        /\ schema_info # NoSnapshot
        /\ schema_info.tables = <<>>
        /\ schema_info.relationships = <<>>
        /\ schema_info.statistics.total_tables = 0
        /\ schema_info.statistics.total_rows = 0
        /\ schema_info.statistics.table_sizes = <<>>

\* C17 witness: the analysis of a database without tables has just returned.
C17_Witness ==
    /\ last_call = [op |-> "analyze_database", result |-> "snapshot"]
    /\ connection = "open"
    /\ db = <<>>
    /\ schema_info.statistics.total_tables = 0

(***************************************************************************)
(* Properties of the purpose inference (PurposeSpec).                      *)
(***************************************************************************)
TablePurposes ==
    {"employees", "departments", "compensation", "projects", "roles", "documents",
     "transactions", "products", "customers", "unknown"}

ColumnPurposes ==
    {"identifier", "name", "email", "phone", "datetime", "monetary", "location",
     "category", "text", "numeric", "boolean", "unknown"}

\* the rules for a table name in their priority order
TableRules ==
    <<[purpose |-> "employees",
       keywords |-> {"employee", "emp", "staff", "personnel", "worker", "user", "person"}],
      [purpose |-> "departments",
       keywords |-> {"department", "dept", "division", "unit", "team", "group"}],
      [purpose |-> "compensation",
       keywords |-> {"salary", "compensation", "pay", "wage", "payroll", "earning"}],
      [purpose |-> "projects", keywords |-> {"project", "assignment", "task", "work", "job"}],
      [purpose |-> "roles", keywords |-> {"role", "position", "job", "title", "designation"}],
      [purpose |-> "documents",
       keywords |-> {"document", "doc", "file", "attachment", "record"}],
      [purpose |-> "transactions", keywords |-> {"order", "purchase", "sale", "transaction"}],
      [purpose |-> "products", keywords |-> {"product", "item", "inventory", "stock"}],
      [purpose |-> "customers", keywords |-> {"customer", "client", "contact"}]>>

\* the rules for a column in their priority order: on its name, then on its type
ColumnRules ==
    <<[purpose |-> "identifier", on |-> "name", keywords |-> {"id", "key", "_id"}],
      [purpose |-> "name", on |-> "name",
       keywords |-> {"name", "title", "label", "fname", "lname", "first_name", "last_name"}],
      [purpose |-> "email", on |-> "name", keywords |-> {"email", "mail", "e_mail"}],
      [purpose |-> "phone", on |-> "name", keywords |-> {"phone", "tel", "mobile", "contact"}],
      [purpose |-> "datetime", on |-> "name",
       keywords |-> {"date", "time", "created", "updated", "modified", "timestamp"}],
      [purpose |-> "monetary", on |-> "name",
       keywords |-> {"salary", "wage", "pay", "compensation", "amount", "price", "cost"}],
      [purpose |-> "location", on |-> "name",
       keywords |-> {"address", "location", "city", "state", "country", "zip", "postal"}],
      [purpose |-> "category", on |-> "name",
       keywords |-> {"status", "state", "category", "type", "kind"}],
      [purpose |-> "text", on |-> "type", keywords |-> {"varchar", "text", "char", "string"}],
      [purpose |-> "numeric", on |-> "type",
       keywords |-> {"int", "integer", "numeric", "decimal", "float", "real", "double"}],
      [purpose |-> "datetime", on |-> "type",
       keywords |-> {"date", "time", "timestamp", "datetime"}],
      [purpose |-> "boolean", on |-> "type", keywords |-> {"bool", "boolean"}]>>

\* the table rules that match a lower-cased table name
MatchingTableRules(name_lower) ==
    {r \in 1..Len(TableRules) : \E k \in TableRules[r].keywords : Contains(name_lower, k)}

\* the column rules that match a lower-cased column name and declared type
MatchingColumnRules(name_lower, type_lower) ==
    {r \in 1..Len(ColumnRules) :
        \E k \in ColumnRules[r].keywords :
            Contains(IF ColumnRules[r].on = "name" THEN name_lower ELSE type_lower, k)}

FirstTablePurpose(table_name) ==
    LET matching == MatchingTableRules(Lower(table_name))
    IN  IF matching = {} THEN "unknown" ELSE TableRules[FirstIndex(matching)].purpose

FirstColumnPurpose(column_name, column_type) ==
    LET matching == MatchingColumnRules(Lower(column_name), Lower(column_type))
    IN  IF matching = {} THEN "unknown" ELSE ColumnRules[FirstIndex(matching)].purpose

\* C18: in every snapshot the purpose of a table is one of the ten table purposes and
\* the purpose of a column one of the twelve column purposes, and each is the purpose
\* of the first rule that matches in the priority order: a table name with "job" that
\* no earlier rule matches is `projects`, a column name with "id" is `identifier`.
C18_PurposeIsFirstMatchingRule ==
    schema_info # NoSnapshot =>
        \A i \in 1..Len(schema_info.tables) :
            LET entry == schema_info.tables[i]
                cols == entry.info.columns
                purposes == entry.info.column_purposes
            IN  /\ entry.purpose \in TablePurposes
                /\ entry.purpose = FirstTablePurpose(entry.table_name)
                /\ (/\ Contains(Lower(entry.table_name), "job")
                    /\ MatchingTableRules(Lower(entry.table_name)) \cap {1, 2, 3} = {})
                       => entry.purpose = "projects"
                /\ Len(purposes) = Len(cols)
                /\ \A k \in 1..Len(cols) :
                      /\ purposes[k].name = cols[k].name
                      /\ purposes[k].purpose \in ColumnPurposes
                      /\ purposes[k].purpose = FirstColumnPurpose(cols[k].name, cols[k].type)
                      /\ Contains(Lower(cols[k].name), "id")
                            => purposes[k].purpose = "identifier"

\* C18 witness: the analysed table `job_titles`, whose name matches the project rule
\* and the role rule, is `projects`, and its column paid_amount, whose name matches the
\* identifier rule and the monetary rule, is `identifier`.
C18_Witness ==
    /\ schema_info # NoSnapshot
    /\ schema_info.tables[1].table_name = "job_titles"
    /\ MatchingTableRules("job_titles") = {4, 5}
    /\ schema_info.tables[1].purpose = "projects"
    /\ schema_info.tables[1].info.column_purposes[1].name = "paid_amount"
    /\ 6 \in MatchingColumnRules("paid_amount", "decimal(10,2)")
    /\ schema_info.tables[1].info.column_purposes[1].purpose = "identifier"

(***************************************************************************)
(* Properties of the query suggestions (SuggestSpec).                      *)
(***************************************************************************)
Suggested == pc = "returned" /\ last_call.op = "generate_query_suggestions"

\* the purposes of the tables of the cached snapshot
CachedPurposes == {schema_info.tables[i].purpose : i \in 1..Len(schema_info.tables)}

\* C19: generate_query_suggestions returns at most 10 entries, each a template of the
\* purpose of a table of the cached snapshot or an entry of the generic list, and it
\* returns the empty list when no snapshot is cached.
C19_AtMostTenTemplateSuggestions ==
    Suggested =>
        /\ Len(returned) <= 10
        /\ IF schema_info = NoSnapshot THEN returned = <<>>
           ELSE \A k \in 1..Len(returned) :
                   \/ returned[k] \in Elems(GenericSuggestions)
                   \/ \E purpose \in CachedPurposes : returned[k] \in Elems(Templates(purpose))

\* C19 witness: three tables with the purpose employees give nine entries, the generic
\* list three more, and the first ten are returned.
C19_Witness ==
    /\ Suggested
    /\ schema_info # NoSnapshot
    /\ Len(schema_info.tables) = 3
    /\ CachedPurposes = {"employees"}
    /\ Len(returned) = 10
    /\ returned[10] = GenericSuggestions[1]

(***************************************************************************)
(* Properties of the synonym credit of a table (Spec).                     *)
(***************************************************************************)
\* the synonym lists of the concepts table i of the snapshot is named by: by the
\* canonical term itself or by one of its synonyms
ConceptsOf(i) ==
    LET name_lower == Lower(schema_info.tables[i].table_name)
        table_patterns == schema_info.naming_patterns.table_synonyms
    IN  {k \in 1..Len(table_patterns) :
            \/ table_patterns[k].canonical = name_lower
            \/ InList(name_lower, table_patterns[k].synonyms)}

\* a synonym of a concept of table i occurs in the current query
SynonymInQuery(i) ==
    \E k \in ConceptsOf(i) :
        AnyIn(schema_info.naming_patterns.table_synonyms[k].synonyms, Lower(natural_query))

\* what the relevance of table i sums apart from the synonym credit, in tenths
OtherCredits(i) ==
    LET query == Lower(natural_query)
        entry == schema_info.tables[i]
        column_matches == Cardinality({k \in 1..Len(entry.info.columns) :
                                         Contains(query, Lower(entry.info.columns[k].name))})
    IN  (IF Contains(query, Lower(entry.table_name)) THEN 8 ELSE 0)
      + (IF Contains(query, entry.purpose) THEN 6 ELSE 0)
      + 2 * column_matches
      + (IF column_matches > 2 THEN 3 ELSE 0)

\* C20 as stated: the relevance of a table adds 0.7, once, whenever the query contains
\* a synonym of the table's canonical concept, for a table named by the canonical term
\* as well as for a table named by a synonym.
C20_SynonymCreditOnce ==
    Mapped =>
        \A i \in 1..Len(schema_info.tables) :
            TableScore(i) = Min(10, OtherCredits(i) + (IF SynonymInQuery(i) THEN 7 ELSE 0))

(***************************************************************************)
(* Properties of the purpose credit of a column (Spec).                    *)
(***************************************************************************)
\* the inferred purpose of column k of table i of the snapshot
InferredPurpose(i, k) ==
    LET entry == schema_info.tables[i]
    IN  NamedEntry(entry.info.column_purposes, entry.info.columns[k].name).purpose

\* the query names column k of table i, or a synonym of its concept
NamedInQuery(i, k) ==
    LET query == Lower(natural_query)
        name_lower == Lower(schema_info.tables[i].info.columns[k].name)
        column_patterns == schema_info.naming_patterns.column_synonyms
    IN  \/ Contains(query, name_lower)
        \/ \E s \in 1..Len(column_patterns) :
              /\ \/ column_patterns[s].canonical = name_lower
                 \/ InList(name_lower, column_patterns[s].synonyms)
              /\ AnyIn(column_patterns[s].synonyms, query)

\* column k of table i earns a type-affinity bonus for the query
TypeAffinity(i, k) ==
    LET query == Lower(natural_query)
        type_lower == Lower(schema_info.tables[i].info.columns[k].type)
    IN  \/ Contains(query, "salary") /\ type_lower \in {"decimal", "numeric", "integer"}
        \/ Contains(query, "name") /\ type_lower \in {"varchar", "text", "char"}
        \/ Contains(query, "date") /\ Contains(type_lower, "date")

\* the names of the columns suggested for table i
SuggestedNames(i) ==
    LET suggested == ColumnsFor(mapping.suggested_columns, schema_info.tables[i].table_name)
    IN  {suggested[k].column_name : k \in 1..Len(suggested)}

\* C21 as stated: the 0.5 purpose credit is given only when the inferred purpose of the
\* column occurs in the query, so a column whose name, synonyms and purpose do not
\* occur in the query and that earns no type-affinity bonus has relevance 0 and is not
\* in suggested_columns.
C21_PurposeCreditOnlyWhenInQuery ==
    Mapped =>
        \A i \in 1..Len(schema_info.tables) :
            \A k \in 1..Len(schema_info.tables[i].info.columns) :
                (/\ ~NamedInQuery(i, k)
                 /\ ~TypeAffinity(i, k)
                 /\ ~Contains(Lower(natural_query), InferredPurpose(i, k)))
                    => /\ ColumnScore(i, k) = 0
                       /\ schema_info.tables[i].info.columns[k].name \notin SuggestedNames(i)

(***************************************************************************)
(* Properties of the limit of a ranking query (BuildSpec).                 *)
(***************************************************************************)
\* the N of an explicit "top N" or "bottom N" in the current query, 10 without one
AskedLimit ==
    LET limit_match == LimitMatch(Lower(natural_query))
    IN  IF limit_match # None THEN ParseInt(limit_match, 1, 0) ELSE 10

\* C22 as stated: the SQL of every ranking query has a LIMIT: LIMIT N for an explicit
\* "top N" or "bottom N", LIMIT 10 otherwise, also when only "highest", "lowest",
\* "max" or "min" made the query a ranking.
C22_RankingHasLimit ==
    (Generated /\ sql_query # None /\ mapping.query_type = "ranking") =>
        EndsWith(sql_query, " LIMIT " \o ToString(AskedLimit))

(***************************************************************************)
(* Properties of the salary condition (WhereSpec).                         *)
(***************************************************************************)
ComparisonWords ==
    <<[word |-> "above", sign |-> " > "], [word |-> "more than", sign |-> " > "],
      [word |-> "below", sign |-> " < "], [word |-> "less than", sign |-> " < "]>>

\* where in a text "salary", comparison word w and a number follow each other
ComparisonAt(text, w) ==
    LET phrase == "salary " \o ComparisonWords[w].word \o " "
    IN  {i \in 1..Len(text) :
            /\ StartsAt(text, i, phrase)
            /\ RunEnd(text, DigitSet, i + Len(phrase)) > i + Len(phrase)}

\* the number of the comparison with word w that starts at i
ComparedNumber(text, w, i) ==
    LET first == i + Len("salary " \o ComparisonWords[w].word \o " ")
    IN  SubSeq(text, first, RunEnd(text, DigitSet, first) - 1)

\* the suggested columns of the primary table whose name contains "salary"
SalaryColumns ==
    LET columns == ColumnsFor(mapping.suggested_columns,
                              mapping.suggested_tables[1].table_name)
    IN  {k \in 1..Len(columns) : Contains(Lower(columns[k].column_name), "salary")}

\* C23 as stated: when the query has "salary", a comparison word and a number in a row
\* and the primary table has a suggested column whose name contains "salary", the
\* WHERE conditions hold `<col> > <number>` for "above" and "more than" and
\* `<col> < <number>` for "below" and "less than".
C23_SalaryComparisonByWord ==
    (Generated /\ mapping.suggested_tables # <<>> /\ SalaryColumns # {}) =>
        \A w \in 1..Len(ComparisonWords) :
            \A i \in ComparisonAt(Lower(natural_query), w) :
                /\ sql_query # None
                /\ \E k \in SalaryColumns :
                      LET columns == ColumnsFor(mapping.suggested_columns,
                                                mapping.suggested_tables[1].table_name)
                      IN  InList(columns[k].column_name \o ComparisonWords[w].sign
                                    \o ComparedNumber(Lower(natural_query), w, i),
                                 Parts.where)

(***************************************************************************)
(* Properties of the joins (JoinSpec).                                     *)
(***************************************************************************)
\* the number of JOINs in the current SQL
JoinCount == Cardinality({i \in 1..Len(sql_query) : StartsAt(sql_query, i, " LEFT JOIN ")})

\* the suggested tables after the first that make the employee/department naming
\* pattern with the first
PatternPartners ==
    LET tables == mapping.suggested_tables
        primary == Lower(tables[1].table_name)
    IN  {i \in 2..Len(tables) :
            \/ Contains(Lower(tables[i].table_name), "department")
                  /\ Contains(primary, "employee")
            \/ Contains(Lower(tables[i].table_name), "employee")
                  /\ Contains(primary, "department")}

\* the current SQL joins suggested table i
Joins(i) == Contains(sql_query, " LEFT JOIN " \o mapping.suggested_tables[i].table_name \o " ON ")

\* the database without its foreign key declarations
WithoutForeignKeys ==
    [i \in 1..Len(db) |-> [db[i] EXCEPT !.foreign_keys = <<>>]]

\* the SQL the current query gives on the database without its foreign keys
SqlWithoutForeignKeys ==
    _generate_sql_query(natural_query,
        map_natural_language_to_schema(natural_query, analyze_database(WithoutForeignKeys)))

\* C24 as stated: the SQL has at most one JOIN, no JOIN involves a suggested table
\* ranked third or lower, and the SQL does not depend on the foreign keys.
C24_Original ==
    (Generated /\ sql_query # None) =>
        /\ JoinCount <= 1
        /\ \A i \in 3..Len(mapping.suggested_tables) : ~Joins(i)
        /\ sql_query = SqlWithoutForeignKeys

\* C24: the SQL has one JOIN for each suggested table after the first that makes the
\* employee/department naming pattern with the first, whatever its rank, and no other
\* JOIN; it does not depend on the foreign keys of the snapshot.
C24_JoinPerPatternPartner ==
    (Generated /\ sql_query # None) =>
        /\ JoinCount = Cardinality(PatternPartners)
        /\ \A i \in 2..Len(mapping.suggested_tables) : Joins(i) <=> i \in PatternPartners
        /\ sql_query = SqlWithoutForeignKeys

\* C24 witness: with `employees` first, its foreign key declared, and two
\* department-like tables ranked second and third, the SQL joins both.
C24_Witness ==
    /\ Generated
    /\ sql_query # None
    /\ Len(mapping.suggested_tables) = 3
    /\ mapping.suggested_tables[1].table_name = "employees"
    /\ schema_info.tables[TableIndex("employees")].info.foreign_keys # <<>>
    /\ PatternPartners = {2, 3}
    /\ JoinCount = 2
    /\ Joins(3)

(***************************************************************************)
(* Properties of the steps of one execute_query call (EngineSpec).         *)
(***************************************************************************)
StepOrder == <<"map", "synthesize", "execute", "documents">>

\* the place of a step in the order
StepRank(name) == CHOOSE r \in 1..Len(StepOrder) : StepOrder[r] = name

\* C25: one execute_query call goes through map, synthesize, execute and document
\* search in this order and through each at most once; it executes SQL only when the
\* synthesizer returned a SQL text; nothing follows a failed step, which is not retried.
C25_StepsInOrderOnce ==
    Returned =>
        /\ trace # <<>>
        /\ trace[1].step = "map"
        /\ \A i \in 1..Len(trace) : trace[i].step \in Elems(StepOrder)
        /\ \A i, j \in 1..Len(trace) :
              i < j => StepRank(trace[i].step) < StepRank(trace[j].step)
        /\ Executions <= 1
        /\ Executions = 1 => sql_query # None
        /\ \A i \in 1..Len(trace) : ~trace[i].ok => i = Len(trace)

\* C25 witness: a call with document search whose SQL executed went through the four
\* steps.
C25_Witness ==
    /\ Returned
    /\ sql_query # None
    /\ trace = <<Step("map", TRUE), Step("synthesize", TRUE), Step("execute", TRUE),
                 Step("documents", TRUE)>>

(***************************************************************************)
(* The snapshot under its readers (FrameSpec).                             *)
(***************************************************************************)
ReadOnlyOps ==
    {"map_natural_language_to_schema", "_generate_sql_query", "execute_query",
     "explain_query", "generate_query_suggestions"}

\* C26: a call of map_natural_language_to_schema, _generate_sql_query, execute_query,
\* explain_query or generate_query_suggestions leaves the cached snapshot as it was,
\* whatever the query and however many calls came before.
C26_ReadersLeaveSnapshot ==
    [][last_call'.op \in ReadOnlyOps => schema_info' = schema_info]_vars

\* C26 witness: explain_query has returned an explanation with SQL from a snapshot
\* that is still the analysis of the database.
C26_Witness ==
    /\ pc = "returned"
    /\ last_call.op = "explain_query"
    /\ sql_query # None
    /\ schema_info # NoSnapshot
    /\ schema_info = analyze_database(db)

(***************************************************************************)
(* The shape of a mapping (FaultMapSpec).                                  *)
(***************************************************************************)
SuggestedTableNames ==
    {mapping.suggested_tables[i].table_name : i \in 1..Len(mapping.suggested_tables)}

SuggestedColumnKeys ==
    {mapping.suggested_columns[i].table_name : i \in 1..Len(mapping.suggested_columns)}

\* the names of the columns the snapshot has for a table
SnapshotColumnNames(table_name) ==
    LET cols == Lookup(schema_info.tables, table_name).info.columns
    IN  {cols[k].name : k \in 1..Len(cols)}

\* C27: in a returned mapping the keys of suggested_columns are the names of the
\* suggested tables, one key per table, and every suggested column is a column the
\* snapshot has for that table.
C27_SuggestedColumnsMatchTables ==
    Mapped =>
        /\ SuggestedColumnKeys = SuggestedTableNames
        /\ Cardinality(SuggestedColumnKeys) = Len(mapping.suggested_columns)
        /\ \A i \in 1..Len(mapping.suggested_columns) :
              \A k \in 1..Len(mapping.suggested_columns[i].columns) :
                 mapping.suggested_columns[i].columns[k].column_name
                    \in SnapshotColumnNames(mapping.suggested_columns[i].table_name)

\* C27 witness: two suggested tables, one with suggested columns and one whose key
\* holds an empty list.
C27_Witness ==
    /\ Mapped
    /\ Len(mapping.suggested_tables) = 2
    /\ \E i, j \in 1..Len(mapping.suggested_columns) :
          /\ mapping.suggested_columns[i].columns = <<>>
          /\ mapping.suggested_columns[j].columns # <<>>

(***************************************************************************)
(* Properties of the GROUP BY list (GroupSpec).                            *)
(***************************************************************************)
\* the list has no element twice
NoDuplicates(s) == \A i, j \in 1..Len(s) : s[i] = s[j] => i = j

\* C28 as stated: the GROUP BY list of a grouping query has no column more than once,
\* also when a keyword of the query is in two keyword groups, and the select list is
\* that list followed by the COUNT(*) expression.
C28_GroupByWithoutDuplicates ==
    (Generated /\ sql_query # None /\ mapping.query_type = "grouping"
        /\ Parts.group_by # <<>>) =>
        /\ NoDuplicates(Parts.group_by)
        /\ Parts.select = Parts.group_by \o <<"COUNT(*) as count">>

(***************************************************************************)
(* Properties of the engine between connects and disconnects (EngineSpec). *)
(***************************************************************************)
\* C29 as stated: execute_query raises nothing in any order of the calls; called when
\* no connect has returned True, or when a disconnect followed the last connect that
\* did, it returns no database rows; it returns rows only while the engine's
\* connection is open.
C29_RowsOnlyWhenConnected ==
    Returned =>
        /\ last_call.result = "bundle"
        /\ ~engine_established => returned.database_results = 0
        /\ returned.database_results > 0 => engine_connection = "open"

\* the engine's connect has just returned failure
ConnectFailed == last_call = [op |-> "engine.connect", result |-> "False"]

\* C30 as stated: when the engine's connect returns failure, the engine holds no open
\* connection, neither its own nor the schema discovery's, and no cached snapshot.
C30_FailedConnectLeavesNothing ==
    ConnectFailed =>
        /\ engine_connection # "open"
        /\ connection # "open"
        /\ schema_info = NoSnapshot
=============================================================================
